---- MODULE Spec2Model ----
(***************************************************************************)
(* Model of the partner ingest job queue of PC1-23/Checkpoint2:            *)
(*   src/src/partners/ingest_queue.py  enqueue_feed_db, _claim_job,        *)
(*                                     worker_loop, process_next_job_once  *)
(*   src/src/partners/routes.py        partner_job_requeue,                *)
(*                                     partner_requeue_failed              *)
(*   src/src/partners/metrics.py       incr, _counters                     *)
(*                                                                         *)
(* The table partner_ingest_jobs is the sequence `jobs` (row id = index).  *)
(* Every process (worker thread or caller of process_next_job_once) has    *)
(* its own sqlite connection; SQLite's single write lock is `lock`.        *)
(* Time is kept relative to CURRENT_TIMESTAMP: a non-null next_run holds   *)
(* the whole seconds that remain until it is reached (0 = reached), and    *)
(* Tick is one second passing.                                             *)
(***************************************************************************)
EXTENDS Integers, Sequences, FiniteSets, TLC

VARIABLES
    jobs,      \* partner_ingest_jobs rows, indexed by id
    diags,     \* partner_ingest_diagnostics rows, indexed by id
    counters,  \* metrics._counters
    lock,      \* connection holding SQLite's write lock, or NoProc
    pc,        \* position of every process in its code
    claimed,   \* per process: the row _claim_job selected / returned
    row,       \* per process: (attempts, max_attempts) re-read by the handler
    txn,       \* per process: UPDATE executed on the connection, not committed
    result,    \* per caller: what process_next_job_once returned last
    hist,      \* per job: times it was claimed since it was enqueued or requeued
    requeues,  \* requeue requests served so far
    catalog,   \* product catalog: what every upsert_products call wrote
    enq,       \* per producer: the enqueue_feed_db call it is in
    mlock,     \* metrics._lock: the thread inside `with _lock`, or NoProc
    mthreads,  \* per metrics client thread: the incr / get_metrics call it is in
    stop_event, \* ingest_queue._stop_event: 0 (None) or an index of events
    events,    \* the threading.Event objects created so far: is it set
    product,   \* the product row of the shop: its stock
    sales,     \* sale rows (with their sale_item), indexed by id
    buyers,    \* per connection: the checkout_transaction call it is in
    slock,     \* connection holding the write lock of the shop database
    breaker,   \* the fields of one CircuitBreaker object
    bcalls,    \* per thread: the CircuitBreaker.call it is in
    inflight,  \* security._inflight: API keys with an upload in progress
    uploads    \* per request: the POST /partner/ingest it is in

queue_vars == <<jobs, diags, counters, lock, pc, claimed, row, txn, result,
                hist, requeues, catalog, enq>>
metrics_vars == <<mlock, mthreads>>
thread_vars == <<stop_event, events>>

shop_vars == <<product, sales, buyers, slock>>
breaker_vars == <<breaker, bcalls>>
upload_vars == <<inflight, uploads>>
side_vars == <<shop_vars, breaker_vars, upload_vars>>

vars == <<jobs, diags, counters, lock, pc, claimed, row, txn, result, hist,
          requeues, catalog, enq, mlock, mthreads, stop_event, events,
          product, sales, buyers, slock, breaker, bcalls, inflight, uploads>>

-----------------------------------------------------------------------------
(* Bounds of the model *)

MaxJobs == 2
MaxRequeues == 1
(* enqueue_feed_db calls one producer completes *)
MaxCalls == 1
(* incr / get_metrics calls one thread completes *)
MaxMetricCalls == 2
(* stock the product is seeded with *)
MaxStock == 2
(* calls each thread makes through the circuit breaker *)
MaxBreakerCalls == 3

(* Processes: worker threads running worker_loop (one per application
   process; "off" = not started) and a caller of process_next_job_once *)
Workers == {"w1", "w2"}
Syncs == {"s1"}
Procs == Workers \cup Syncs
NoProc == "none"

Partners == {1}

(* threads that call metrics.incr and metrics.get_metrics *)
MetricThreads == {"t1", "t2", "t3"}
NoMetricCall == [pc |-> "idle", applied |-> << >>, seen |-> << >>]

(* callers of enqueue_feed_db: the upload route and the scheduler *)
Producers == {"e1", "e2"}

(* connections that call SalesRepo.checkout_transaction *)
Buyers == {"b1", "b2", "b3"}
NoCheckout == [pc |-> "idle"]

(* threads that call CircuitBreaker.call *)
BreakerThreads == {"c1", "c2"}
NoBreakerCall == [pc |-> "idle", outcome |-> "none", calls |-> 0]

(* requests to POST /partner/ingest *)
Requests == {"r1", "r2"}
NoUpload == [pc |-> "idle"]

(* the shop, the circuit breaker and the upload route at rest *)
ShopIdle ==
    /\ product = [stock |-> 0, seeded |-> 0]
    /\ sales = << >>
    /\ buyers = [b \in Buyers |-> NoCheckout]
    /\ slock = NoProc

(* CircuitBreaker.__init__.  last_failure_time is kept as the whole seconds
   elapsed since it (None when there was no failure).  failures_in_row and
   trial_successes are not fields of the object: they count the calls that
   failed since the last success or reset, and the calls that succeeded since
   the state last became half_open. *)
NoFailureTime == -1

NewBreaker(failure_threshold, timeout_seconds, success_threshold) ==
    [state |-> "closed", failure_count |-> 0, success_count |-> 0,
     last_failure_time |-> NoFailureTime, failure_threshold |-> failure_threshold,
     success_threshold |-> success_threshold, timeout_seconds |-> timeout_seconds,
     failures_in_row |-> 0, trial_successes |-> 0]

BreakerIdle ==
    /\ breaker = NewBreaker(1, 1, 1)
    /\ bcalls = [t \in BreakerThreads |-> NoBreakerCall]

UploadIdle ==
    /\ inflight = {}
    /\ uploads = [r \in Requests |-> NoUpload]

SideIdle == ShopIdle /\ BreakerIdle /\ UploadIdle
NoCall == [pc |-> "idle", log |-> << >>]

(* SQL NULL in an integer column *)
Null == -1
(* SQL NULL in a text column *)
NullText == [null |-> TRUE]

(* `max_attempts or 5` : ingest_queue.py line 94 and line 161 *)
DefaultMaxAttempts == 5
(* len(djson) > 2000 : ingest_queue.py line 128 and line 143 *)
OffloadThreshold == 2000

-----------------------------------------------------------------------------
(* Pure helpers *)

RECURSIVE Pow2(_)
Pow2(n) == IF n <= 0 THEN 1 ELSE 2 * Pow2(n - 1)

Max(a, b) == IF a >= b THEN a ELSE b

(* json.dumps / json.loads: the text is a distinct value wrapping the data *)
json_dumps(v) == [json |-> v]
json_loads(s) == s.json

(* variant: `x or d` that leaves an unset value unset (read as 0) *)
OrDefaultUnset(x, d) == IF x = Null \/ x = 0 THEN 0 ELSE x

(* Python's `x or d` on an integer column value *)
OrDefault(x, d) == IF x = Null \/ x = 0 THEN d ELSE x

(* Items of a payload.  "ok" passes validate_products and is written by
   upsert_products.  "big" passes validate_products (stock is an integer >= 0)
   but its stock does not fit an SQLite INTEGER, so the statement on the
   product table raises for it.  The others fail one rule of
   validate_products. *)
ValidationMessage ==
    [bad       |-> "stock must be >= 0",
     neg_price |-> "price_cents must be >= 0",
     no_name   |-> "name is required",
     str_price |-> "price_cents must be integer"]
Rejected == DOMAIN ValidationMessage
Items == {"ok", "big"} \cup Rejected

(* The payloads enqueued: the scheduler's empty run, a valid batch, and a
   batch whose second item is invalid *)
Payloads == {<< >>, <<"ok">>, <<"ok", "bad">>}

(* validate_products: (valid_items, errors), one "Item <idx>: <message>" per
   rejected item, idx counted from 0 *)
RECURSIVE ValidationErrors(_, _)
ValidationErrors(products, idx) ==
    IF idx > Len(products) THEN << >>
    ELSE (IF products[idx] \in Rejected
          THEN << [item |-> idx - 1, msg |-> ValidationMessage[products[idx]]] >>
          ELSE << >>)
         \o ValidationErrors(products, idx + 1)

(* variant: a validator that lets every item pass *)
validate_products_lenient(products) ==
    [valid |-> products, errors |-> << >>]

validate_products(products) ==
    [valid  |-> SelectSeq(products, LAMBDA i : i \notin Rejected),
     errors |-> ValidationErrors(products, 1)]

(* upsert_products: one "Item <idx> error: <e>" per item whose statement
   raises, idx counted from 0 within the items passed *)
OverflowMessage == "Python int too large to convert to SQLite INTEGER"

RECURSIVE UpsertErrors(_, _)
UpsertErrors(items, idx) ==
    IF idx > Len(items) THEN << >>
    ELSE (IF items[idx] = "big"
          THEN << [item |-> idx - 1, error |-> OverflowMessage] >>
          ELSE << >>)
         \o UpsertErrors(items, idx + 1)

(* len(str(n)) for the numbers that occur *)
Digits(n) == IF n < 10 THEN 1 ELSE IF n < 100 THEN 2 ELSE 3

(* len() of the message texts *)
TextLen ==
    [t \in {"stock must be >= 0", "price_cents must be >= 0", "name is required",
            "price_cents must be integer", OverflowMessage} |->
        CASE t = "stock must be >= 0" -> 18
          [] t = "price_cents must be >= 0" -> 24
          [] t = "name is required" -> 16
          [] t = "price_cents must be integer" -> 27
          [] OTHER -> 49]

(* len() of one entry of the errors list: "Item <idx>: <msg>" or
   "Item <idx> error: <e>" *)
ErrorTextLen(e) ==
    IF "msg" \in DOMAIN e
    THEN 5 + Digits(e.item) + 2 + TextLen[e.msg]
    ELSE 5 + Digits(e.item) + 8 + TextLen[e.error]

RECURSIVE ErrorsLen(_)
ErrorsLen(errors) ==
    IF errors = << >> THEN 0
    ELSE ErrorTextLen(Head(errors)) + 2
         + (IF Len(errors) > 1 THEN 2 ELSE 0) + ErrorsLen(Tail(errors))

(* len(json.dumps(diag)) for diag = {"accepted": a, "rejected": r, "errors": [...]}:
   42 characters of keys and punctuation, the two numbers, and the list with
   every message in quotes and ", " between two messages *)
DiagFixedLen == 42
SerializedLen(diag) ==
    DiagFixedLen + Digits(diag.accepted) + Digits(diag.rejected) + ErrorsLen(diag.errors)

-----------------------------------------------------------------------------
(* The job table *)

JobIds == 1..Len(jobs)

(* variant: a row counts as due one second before its next_run *)
EligibleEarly(j) ==
    /\ jobs[j].status = "pending"
    /\ (jobs[j].next_run = Null \/ jobs[j].next_run <= 1)

(* variant: the WHERE clause without its next_run condition *)
EligibleAnyTime(j) ==
    /\ jobs[j].status = "pending"

(* variant: the WHERE clause without its status condition *)
EligibleAnyStatus(j) ==
    /\ (jobs[j].next_run = Null \/ jobs[j].next_run <= 0)

(* WHERE status = 'pending' AND (next_run IS NULL OR next_run <= CURRENT_TIMESTAMP) *)
Eligible(j) ==
    /\ jobs[j].status = "pending"
    /\ (jobs[j].next_run = Null \/ jobs[j].next_run <= 0)

EligibleIds == {j \in JobIds : Eligible(j)}

MinOf(S) == CHOOSE x \in S : \A y \in S : x <= y

(* variant: ... ORDER BY id DESC LIMIT 1 *)
SelectedRowNewest ==
    IF EligibleIds = {} THEN 0 ELSE CHOOSE x \in EligibleIds : \A y \in EligibleIds : x >= y

(* ... ORDER BY id LIMIT 1 *)
SelectedRow == IF EligibleIds = {} THEN 0 ELSE MinOf(EligibleIds)

NoClaim == [jid |-> 0]
NoRow == [attempts |-> Null, max_attempts |-> Null]
NoTxn == [status |-> "none"]
NoResult == [status |-> "unset"]

NewHist == [claims |-> 0]

TypeOK ==
    /\ \A j \in JobIds :
          /\ jobs[j].status \in {"pending", "in_progress", "done", "failed"}
          /\ jobs[j].partner_id \in Partners
          /\ jobs[j].payload.json \in Seq(Items)
    /\ lock \in Procs \cup {NoProc}
    /\ DOMAIN pc = Procs
    /\ DOMAIN hist = JobIds

Init ==
    /\ jobs = << >>
    /\ diags = << >>
    /\ counters = [enqueued |-> 0, processed |-> 0, failed |-> 0, retried |-> 0]
    /\ lock = NoProc
    /\ pc = [p \in Procs |-> IF p = "w1" THEN "begin"
                            ELSE IF p \in Workers THEN "off" ELSE "idle"]
    /\ claimed = [p \in Procs |-> NoClaim]
    /\ row = [p \in Procs |-> NoRow]
    /\ txn = [p \in Procs |-> NoTxn]
    /\ result = [p \in Syncs |-> NoResult]
    /\ hist = << >>
    /\ requeues = 0
    /\ catalog = << >>
    /\ enq = [e \in Producers |-> NoCall]
    /\ mlock = NoProc
    /\ mthreads = [t \in MetricThreads |-> NoMetricCall]
    /\ stop_event = 0
    /\ events = << >>
    /\ SideIdle

(* variant: a counter that counts in twos *)
incr_twice(c, name) == [c EXCEPT ![name] = @ + 2]

(* metrics.incr(name) *)
incr(c, name) == [c EXCEPT ![name] = @ + 1]

-----------------------------------------------------------------------------
(* Producer: enqueue_feed_db.  max_attempts is not written by the INSERT: the
   row gets the column's value from the schema.  The rows this model enqueues
   allow one retry. *)

MaxAttemptsValues == {2}

(* variant: a row that drops the fingerprint *)
NewJobNoHash(partner_id, products, feed_hash, max_attempts) ==
    [partner_id   |-> partner_id,
     payload      |-> json_dumps(products),
     status       |-> "pending",
     attempts     |-> 0,
     max_attempts |-> max_attempts,
     next_run     |-> Null,
     error        |-> NullText,
     diagnostics  |-> NullText,
     processed_at |-> Null,
     feed_hash    |-> NullText]

NewJob(partner_id, products, feed_hash, max_attempts) ==
    [partner_id   |-> partner_id,
     payload      |-> json_dumps(products),
     status       |-> "pending",
     attempts     |-> 0,
     max_attempts |-> max_attempts,
     next_run     |-> Null,
     error        |-> NullText,
     diagnostics  |-> NullText,
     processed_at |-> Null,
     feed_hash    |-> feed_hash]

enqueue_feed_db(partner_id, products, feed_hash, max_attempts) ==
    /\ Len(jobs) < MaxJobs
    /\ lock = NoProc
    /\ jobs' = Append(jobs, NewJob(partner_id, products, feed_hash, max_attempts))
    /\ hist' = Append(hist, NewHist)
    /\ counters' = incr(counters, "enqueued")
    /\ UNCHANGED <<diags, catalog, enq, lock, pc, claimed, row, txn, result, requeues>>
    /\ UNCHANGED <<metrics_vars, thread_vars, side_vars>>

Enqueue ==
    \E partner_id \in Partners, products \in Payloads, m \in MaxAttemptsValues :
        enqueue_feed_db(partner_id, products, NullText, m)

-----------------------------------------------------------------------------
(* Claim protocol: _claim_job(conn), three statements on one connection.
   A process is at "begin" when it has opened its connection and calls
   _claim_job. *)

(* variant: a deferred BEGIN, which takes no lock before the SELECT *)
BeginDeferred(p) ==
    /\ lock' = lock

(* cur.execute("BEGIN IMMEDIATE"): takes the write lock or waits for it *)
BeginImmediate(p) ==
    /\ lock = NoProc
    /\ lock' = p

(* worker_loop's test at the top of every iteration: the module global
   _stop_event, as it is when the thread reads it, is an event that is set *)
StopSeen == stop_event # 0 /\ events[stop_event]

ClaimBegin(p) ==
    /\ pc[p] = "begin"
    /\ p \in Workers => ~StopSeen
    /\ BeginImmediate(p)
    /\ pc' = [pc EXCEPT ![p] = "select"]
    /\ UNCHANGED <<jobs, diags, catalog, enq, counters, claimed, row, txn, result, hist, requeues>>
    /\ UNCHANGED <<metrics_vars, thread_vars, side_vars>>

(* the tuple the SELECT fetched, as _claim_job returns it *)
ClaimResult(j) ==
    [jid          |-> j,
     partner_id   |-> jobs[j].partner_id,
     products     |-> json_loads(jobs[j].payload),
     attempts     |-> OrDefault(jobs[j].attempts, 0),
     max_attempts |-> OrDefault(jobs[j].max_attempts, DefaultMaxAttempts)]

(* where a process continues when _claim_job returned None, or raised: the
   worker sleeps one poll interval, process_next_job_once returns *)
AfterNone(p) == IF p \in Workers THEN "sleep" ELSE "idle"

(* SELECT ... LIMIT 1; `if not row: conn.rollback(); return None` *)
ClaimSelect(p) ==
    /\ pc[p] = "select"
    /\ IF SelectedRow = 0
       THEN /\ lock' = NoProc
            /\ pc' = [pc EXCEPT ![p] = AfterNone(p)]
            /\ claimed' = [claimed EXCEPT ![p] = NoClaim]
            /\ result' = IF p \in Syncs
                         THEN [result EXCEPT ![p] = [status |-> "None"]]
                         ELSE result
       ELSE /\ claimed' = [claimed EXCEPT ![p] = ClaimResult(SelectedRow)]
            /\ pc' = [pc EXCEPT ![p] = "update"]
            /\ UNCHANGED <<lock, result, requeues>>
    /\ UNCHANGED <<jobs, diags, catalog, enq, counters, row, txn, hist, requeues>>
    /\ UNCHANGED <<metrics_vars, thread_vars, side_vars>>

(* variant: the UPDATE without its increment *)
ClaimedRowSameAttempts(r) == [r EXCEPT !.status = "in_progress"]

(* UPDATE ... SET status='in_progress', attempts = attempts + 1 WHERE id = ? *)
ClaimedRow(r) == [r EXCEPT !.status = "in_progress", !.attempts = @ + 1]

(* the UPDATE, conn.commit() and the return of the tuple *)
ClaimUpdate(p) ==
    /\ pc[p] = "update"
    /\ LET j == claimed[p].jid
       IN  /\ jobs' = [jobs EXCEPT ![j] = ClaimedRow(@)]
           /\ hist' = [hist EXCEPT ![j].claims = @ + 1]
    /\ lock' = NoProc
    /\ pc' = [pc EXCEPT ![p] = "proc"]
    /\ UNCHANGED <<diags, catalog, enq, counters, claimed, row, txn, result, requeues>>
    /\ UNCHANGED <<metrics_vars, thread_vars, side_vars>>

(* sqlite3.OperationalError "database is locked": the lock stayed with another
   connection for the whole busy timeout *)
LockedByOther(p) == lock # NoProc /\ lock # p

(* BEGIN IMMEDIATE raises in worker_loop: the outer except logs and sleeps;
   in process_next_job_once the error reaches the caller *)
(* variant: the outer except ends the thread *)
AfterRaiseExit(p) == IF p \in Workers THEN "stopped" ELSE "idle"

(* worker_loop: `except Exception: logger.exception(...); time.sleep(...)`,
   then the next iteration of `while True` *)
AfterRaise(p) == IF p \in Workers THEN "sleep" ELSE "idle"

ClaimError(p) ==
    /\ pc[p] = "begin"
    /\ p \in Workers => ~StopSeen
    /\ LockedByOther(p)
    /\ pc' = [pc EXCEPT ![p] = AfterRaise(p)]
    /\ result' = IF p \in Syncs
                 THEN [result EXCEPT ![p] = [status |-> "raised"]]
                 ELSE result
    /\ UNCHANGED <<jobs, diags, catalog, enq, counters, lock, claimed, row, txn, hist, requeues>>
    /\ UNCHANGED <<metrics_vars, thread_vars, side_vars>>

(* worker_loop: time.sleep(poll_interval) is over, next iteration *)
WorkerSleep(w) ==
    /\ w \in Workers
    /\ pc[w] = "sleep"
    /\ pc' = [pc EXCEPT ![w] = "begin"]
    /\ UNCHANGED <<jobs, diags, catalog, enq, counters, lock, claimed, row, txn, result, hist, requeues>>
    /\ UNCHANGED <<metrics_vars, thread_vars, side_vars>>

(* a caller enters process_next_job_once *)
SyncCall(s) ==
    /\ s \in Syncs
    /\ pc[s] = "idle"
    /\ pc' = [pc EXCEPT ![s] = "begin"]
    /\ result' = [result EXCEPT ![s] = NoResult]
    /\ UNCHANGED <<jobs, diags, catalog, enq, counters, lock, claimed, row, txn, hist, requeues>>
    /\ UNCHANGED <<metrics_vars, thread_vars, side_vars>>

-----------------------------------------------------------------------------
(* Per-job processing, the body of the inner try of worker_loop and of
   process_next_job_once *)

(* processed_at = CURRENT_TIMESTAMP: a timestamp, its value is not tracked *)
Stamp == 0

(* upsert_products(conn, valid_items, partner_id): (upserted, errors) *)
upsert_products(valid_items) ==
    [upserted |-> Len(SelectSeq(valid_items, LAMBDA i : i = "ok")),
     errors   |-> UpsertErrors(valid_items, 1)]

(* the product table after the call: the call's rows are appended to what the
   earlier calls wrote; a call that writes no row leaves its (empty) entry *)
CatalogAfter(j, valid_items) ==
    Append(catalog, [job_id   |-> j,
                     products |-> valid_items,
                     written  |-> SelectSeq(valid_items, LAMBDA i : i = "ok")])

(* diag of the validation-failure branch and of the upsert branch *)
ValidationDiag(errors) ==
    [accepted |-> 0, rejected |-> Len(errors), errors |-> errors]
(* variant: a summary that drops what the upsert rejected *)
UpsertDiagNoErrors(u) ==
    [accepted |-> u.upserted, rejected |-> 0, errors |-> << >>]

UpsertDiag(u) ==
    [accepted |-> u.upserted, rejected |-> Len(u.errors), errors |-> u.errors]

(* variant: offload from 2000 characters on *)
OffloadedFrom(diag) == SerializedLen(diag) >= OffloadThreshold

Offloaded(diag) == SerializedLen(diag) > OffloadThreshold

(* f"/partner/diagnostics/{off_id}" and the <int:diag_id> of the route *)
DiagnosticsLink(off_id) == [route |-> "/partner/diagnostics/", diag_id |-> off_id]

(* the value written to the diagnostics column *)
DiagColumn(diag) ==
    IF Offloaded(diag)
    THEN json_dumps([errors_link |-> DiagnosticsLink(Len(diags) + 1)])
    ELSE json_dumps(diag)

(* INSERT INTO partner_ingest_diagnostics (job_id, diagnostics) *)
DiagsAfter(j, diag) ==
    IF Offloaded(diag)
    THEN Append(diags, [job_id |-> j, diagnostics |-> json_dumps(diag)])
    ELSE diags

(* the three UPDATE statements that finalise a job *)
(* variant: the empty run also writes an (empty) summary *)
DoneEmptyRowWithSummary(r) ==
    [r EXCEPT !.status = "done", !.processed_at = Stamp,
              !.diagnostics = json_dumps(ValidationDiag(<< >>))]

DoneEmptyRow(r) == [r EXCEPT !.status = "done", !.processed_at = Stamp]
FailedValidationRow(r, errors, dcol) ==
    [r EXCEPT !.status = "failed", !.error = json_dumps(errors), !.diagnostics = dcol]
(* variant: the finished job's payload is emptied *)
DoneRowDropPayload(r, dcol) ==
    [r EXCEPT !.status = "done", !.processed_at = Stamp, !.diagnostics = dcol,
              !.payload = json_dumps(<< >>)]

DoneRow(r, dcol) ==
    [r EXCEPT !.status = "done", !.processed_at = Stamp, !.diagnostics = dcol]

(* where a process continues after its job *)
AfterJob(p) == IF p \in Workers THEN "begin" ELSE "idle"

(* the final status written by the try body for this payload *)
FinalStatus(products) ==
    IF products = << >> THEN "done"
    ELSE IF validate_products(products).errors # << >> THEN "failed" ELSE "done"

(* the worker loop counts a finished job; process_next_job_once has no incr *)
CountProcessed(p, products) ==
    IF p \in Workers /\ FinalStatus(products) = "done"
    THEN incr(counters, "processed")
    ELSE counters

(* the try body runs to its commit without raising *)
ProcFinish(p) ==
    /\ pc[p] = "proc"
    /\ lock = NoProc
    /\ LET j        == claimed[p].jid
           products == claimed[p].products
           v        == validate_products(products)
           vdiag    == ValidationDiag(v.errors)
           udiag    == UpsertDiag(upsert_products(v.valid))
       IN  /\ IF products = << >>
              THEN /\ jobs' = [jobs EXCEPT ![j] = DoneEmptyRow(@)]
                   /\ diags' = diags
                   /\ catalog' = catalog
              ELSE IF v.errors # << >>
              THEN /\ jobs' = [jobs EXCEPT ![j] =
                                  FailedValidationRow(@, v.errors, DiagColumn(vdiag))]
                   /\ diags' = DiagsAfter(j, vdiag)
                   /\ catalog' = catalog
              ELSE /\ jobs' = [jobs EXCEPT ![j] = DoneRow(@, DiagColumn(udiag))]
                   /\ diags' = DiagsAfter(j, udiag)
                   /\ catalog' = CatalogAfter(j, v.valid)
           /\ counters' = CountProcessed(p, products)
           /\ result' = IF p \in Syncs
                        THEN [result EXCEPT ![p] =
                                 [status |-> FinalStatus(products), job_id |-> j]]
                        ELSE result
    /\ pc' = [pc EXCEPT ![p] = AfterJob(p)]
    /\ claimed' = [claimed EXCEPT ![p] = NoClaim]
    /\ UNCHANGED <<lock, row, txn, hist, requeues, enq>>
    /\ UNCHANGED <<metrics_vars, thread_vars, side_vars>>

(* a statement of the try body raises (a collaborator, or the store) *)
ProcRaise(p) ==
    /\ pc[p] = "proc"
    /\ pc' = [pc EXCEPT ![p] = "handler"]
    /\ UNCHANGED <<jobs, diags, catalog, enq, counters, lock, claimed, row, txn, result, hist, requeues>>
    /\ UNCHANGED <<metrics_vars, thread_vars, side_vars>>

-----------------------------------------------------------------------------
(* worker_loop: `except Exception as e` around the try body *)

(* str(e) *)
ErrorText == [text |-> "exception"]

(* SELECT attempts, max_attempts FROM partner_ingest_jobs WHERE id = ? *)
HandlerSelect(w) ==
    /\ w \in Workers
    /\ pc[w] = "handler"
    /\ row' = [row EXCEPT ![w] =
                  [attempts     |-> jobs[claimed[w].jid].attempts,
                   max_attempts |-> jobs[claimed[w].jid].max_attempts]]
    /\ pc' = [pc EXCEPT ![w] = "h_update"]
    /\ UNCHANGED <<jobs, diags, catalog, enq, counters, lock, claimed, txn, result, hist, requeues>>
    /\ UNCHANGED <<metrics_vars, thread_vars, side_vars>>

(* variant: if cur_attempts <= (cur_max or 5) *)
RetryAllowedInclusive(cur_attempts, cur_max) ==
    cur_attempts <= OrDefault(cur_max, DefaultMaxAttempts)

(* if cur_attempts < (cur_max or 5) *)
RetryAllowed(cur_attempts, cur_max) ==
    cur_attempts < OrDefault(cur_max, DefaultMaxAttempts)

(* variant: a jitter of uniform(0.5, 2.0) *)
DelayRangeWide(cur_attempts) ==
    LET base == Max(1, Pow2(cur_attempts))
    IN  Max(1, base \div 2) .. (2 * base)

(* base = max(1, 2 ** cur_attempts);
   int(max(1, base * random.uniform(0.5, 1.5))): every whole number of seconds
   the jitter can give *)
DelayRange(cur_attempts) ==
    LET base == Max(1, Pow2(cur_attempts))
    IN  Max(1, base \div 2) .. ((3 * base) \div 2)

(* the UPDATE of the handler is executed (it takes the write lock); on the
   retry branch incr("retried") follows it *)
HandlerUpdate(w) ==
    /\ w \in Workers
    /\ pc[w] = "h_update"
    /\ lock = NoProc
    /\ lock' = w
    /\ IF RetryAllowed(row[w].attempts, row[w].max_attempts)
       THEN /\ \E delay \in DelayRange(row[w].attempts) :
                  txn' = [txn EXCEPT ![w] =
                             [status |-> "pending", next_run |-> delay]]
            /\ counters' = incr(counters, "retried")
       ELSE /\ txn' = [txn EXCEPT ![w] = [status |-> "failed"]]
            /\ counters' = counters
    /\ pc' = [pc EXCEPT ![w] = "h_count"]
    /\ UNCHANGED <<jobs, diags, catalog, enq, claimed, row, result, hist, requeues>>
    /\ UNCHANGED <<metrics_vars, thread_vars, side_vars>>

(* incr("failed") after the if/else; record_audit then runs on a connection
   of its own while this one still holds the lock, so the commit comes later *)
HandlerCount(w) ==
    /\ w \in Workers
    /\ pc[w] = "h_count"
    /\ counters' = incr(counters, "failed")
    /\ pc' = [pc EXCEPT ![w] = "h_commit"]
    /\ UNCHANGED <<jobs, diags, catalog, enq, lock, claimed, row, txn, result, hist,
                   requeues>>
    /\ UNCHANGED <<metrics_vars, thread_vars, side_vars>>

(* the row as the handler's UPDATE leaves it *)
HandlerRow(r, t) ==
    IF t.status = "pending"
    THEN [r EXCEPT !.status = "pending", !.next_run = t.next_run, !.error = ErrorText]
    ELSE [r EXCEPT !.status = "failed", !.error = ErrorText]

(* conn.commit() of the handler, conn.close(), next iteration *)
HandlerCommit(w) ==
    /\ w \in Workers
    /\ pc[w] = "h_commit"
    /\ lock = w
    /\ jobs' = [jobs EXCEPT ![claimed[w].jid] = HandlerRow(@, txn[w])]
    /\ lock' = NoProc
    /\ pc' = [pc EXCEPT ![w] = "begin"]
    /\ claimed' = [claimed EXCEPT ![w] = NoClaim]
    /\ row' = [row EXCEPT ![w] = NoRow]
    /\ txn' = [txn EXCEPT ![w] = NoTxn]
    /\ UNCHANGED <<diags, catalog, enq, counters, result, hist, requeues>>
    /\ UNCHANGED <<metrics_vars, thread_vars, side_vars>>

(* the handler's UPDATE raises "database is locked": the exception leaves the
   handler, `finally` closes the connection, the outer except logs and sleeps *)
HandlerError(w) ==
    /\ w \in Workers
    /\ pc[w] = "h_update"
    /\ LockedByOther(w)
    /\ pc' = [pc EXCEPT ![w] = "sleep"]
    /\ claimed' = [claimed EXCEPT ![w] = NoClaim]
    /\ row' = [row EXCEPT ![w] = NoRow]
    /\ UNCHANGED <<jobs, diags, catalog, enq, counters, lock, txn, result, hist, requeues>>
    /\ UNCHANGED <<metrics_vars, thread_vars, side_vars>>

(* process_next_job_once: `except Exception as e`: UPDATE ... status='failed',
   commit, return *)
SyncFailedRow(r) == [r EXCEPT !.status = "failed", !.error = ErrorText]

SyncHandler(s) ==
    /\ s \in Syncs
    /\ pc[s] = "handler"
    /\ lock = NoProc
    /\ jobs' = [jobs EXCEPT ![claimed[s].jid] = SyncFailedRow(@)]
    /\ result' = [result EXCEPT ![s] =
                     [status |-> "failed", job_id |-> claimed[s].jid]]
    /\ pc' = [pc EXCEPT ![s] = "idle"]
    /\ claimed' = [claimed EXCEPT ![s] = NoClaim]
    /\ UNCHANGED <<diags, catalog, enq, counters, lock, row, txn, hist, requeues>>
    /\ UNCHANGED <<metrics_vars, thread_vars, side_vars>>

SyncHandlerError(s) ==
    /\ s \in Syncs
    /\ pc[s] = "handler"
    /\ LockedByOther(s)
    /\ result' = [result EXCEPT ![s] = [status |-> "raised"]]
    /\ pc' = [pc EXCEPT ![s] = "idle"]
    /\ claimed' = [claimed EXCEPT ![s] = NoClaim]
    /\ UNCHANGED <<jobs, diags, catalog, enq, counters, lock, row, txn, hist, requeues>>
    /\ UNCHANGED <<metrics_vars, thread_vars, side_vars>>

-----------------------------------------------------------------------------
(* routes.py: requeue endpoints *)

(* variant: a requeue that keeps the attempts the job has used *)
(* variant: the status is not written *)
RequeuedRowStillFailed(r) ==
    [r EXCEPT !.next_run = Null, !.attempts = 0, !.error = NullText]

RequeuedRowKeepAttempts(r) ==
    [r EXCEPT !.status = "pending", !.next_run = Null, !.error = NullText]

(* UPDATE ... SET status='pending', next_run = NULL, attempts = 0, error = NULL *)
RequeuedRow(r) ==
    [r EXCEPT !.status = "pending", !.next_run = Null, !.attempts = 0,
              !.error = NullText]

RequeuedHist(h) == [h EXCEPT !.claims = 0]

(* POST /partner/jobs/<id>/requeue by an admin or by the owning partner *)
partner_job_requeue(job_id) ==
    /\ job_id \in JobIds
    /\ requeues < MaxRequeues
    /\ lock = NoProc
    /\ jobs' = [jobs EXCEPT ![job_id] = RequeuedRow(@)]
    /\ hist' = [hist EXCEPT ![job_id] = RequeuedHist(@)]
    /\ requeues' = requeues + 1
    /\ UNCHANGED <<diags, catalog, enq, counters, lock, pc, claimed, row, txn, result>>
    /\ UNCHANGED <<metrics_vars, thread_vars, side_vars>>

(* ... WHERE partner_id = ? AND status = 'failed' *)
FailedOf(partner_id) ==
    {j \in JobIds : jobs[j].partner_id = partner_id /\ jobs[j].status = "failed"}

(* POST /partner/jobs/requeue_failed *)
partner_requeue_failed(partner_id) ==
    /\ FailedOf(partner_id) # {}
    /\ requeues < MaxRequeues
    /\ lock = NoProc
    /\ jobs' = [j \in JobIds |->
                   IF j \in FailedOf(partner_id) THEN RequeuedRow(jobs[j]) ELSE jobs[j]]
    /\ hist' = [j \in JobIds |->
                   IF j \in FailedOf(partner_id) THEN RequeuedHist(hist[j]) ELSE hist[j]]
    /\ requeues' = requeues + 1
    /\ UNCHANGED <<diags, catalog, enq, counters, lock, pc, claimed, row, txn, result>>
    /\ UNCHANGED <<metrics_vars, thread_vars, side_vars>>

-----------------------------------------------------------------------------
(* One second passes: every next_run still ahead, stored or in an uncommitted
   UPDATE, is one second nearer *)
Nearer(t) == IF t > 0 THEN t - 1 ELSE t

Waiting ==
    \/ \E j \in JobIds : jobs[j].next_run > 0
    \/ \E p \in Workers : txn[p].status = "pending" /\ txn[p].next_run > 0

Tick ==
    /\ Waiting
    /\ jobs' = [j \in JobIds |-> [jobs[j] EXCEPT !.next_run = Nearer(@)]]
    /\ txn' = [p \in Procs |->
                  IF txn[p].status = "pending"
                  THEN [txn[p] EXCEPT !.next_run = Nearer(@)]
                  ELSE txn[p]]
    /\ UNCHANGED <<diags, catalog, enq, counters, lock, pc, claimed, row, result, hist, requeues>>
    /\ UNCHANGED <<metrics_vars, thread_vars, side_vars>>

-----------------------------------------------------------------------------
Next ==
    \/ Enqueue
    \/ \E p \in Procs : ClaimBegin(p)
    \/ \E p \in Procs : ClaimSelect(p)
    \/ \E p \in Procs : ClaimUpdate(p)
    \/ \E p \in Procs : ClaimError(p)
    \/ \E w \in Workers : WorkerSleep(w)
    \/ \E s \in Syncs : SyncCall(s)
    \/ \E p \in Procs : ProcFinish(p)
    \/ \E p \in Procs : ProcRaise(p)
    \/ \E w \in Workers : HandlerSelect(w)
    \/ \E w \in Workers : HandlerUpdate(w)
    \/ \E w \in Workers : HandlerCount(w)
    \/ \E w \in Workers : HandlerCommit(w)
    \/ \E w \in Workers : HandlerError(w)
    \/ \E s \in Syncs : SyncHandler(s)
    \/ \E s \in Syncs : SyncHandlerError(s)
    \/ \E j \in 1..MaxJobs : partner_job_requeue(j)
    \/ \E partner_id \in Partners : partner_requeue_failed(partner_id)
    \/ Tick

Spec == Init /\ [][Next]_vars

-----------------------------------------------------------------------------
(* Concurrent claim calls against a given table: every process has opened its
   connection and calls _claim_job once; nothing else writes. *)

(* rows the table can hold when the calls start *)
FreshRow(m) == NewJob(1, <<"ok">>, NullText, m)
TableRows ==
    UNION {{ FreshRow(m),
             [FreshRow(m) EXCEPT !.attempts = 1, !.next_run = 0, !.error = ErrorText],
             [FreshRow(m) EXCEPT !.attempts = 1, !.next_run = 2, !.error = ErrorText],
             [FreshRow(m) EXCEPT !.attempts = 1, !.status = "in_progress"],
             DoneEmptyRow([NewJob(1, << >>, NullText, m) EXCEPT !.attempts = 1]),
             [FreshRow(m) EXCEPT !.attempts = OrDefault(m, DefaultMaxAttempts),
                                 !.status = "failed", !.error = ErrorText] }
           : m \in {Null, 3}}

Tables == UNION {[1..n -> TableRows] : n \in 0..MaxJobs}

ClaimInit ==
    /\ jobs \in Tables
    /\ diags = << >>
    /\ counters = [enqueued |-> Len(jobs), processed |-> 0, failed |-> 0, retried |-> 0]
    /\ lock = NoProc
    /\ pc = [p \in Procs |-> "begin"]
    /\ claimed = [p \in Procs |-> NoClaim]
    /\ row = [p \in Procs |-> NoRow]
    /\ txn = [p \in Procs |-> NoTxn]
    /\ result = [p \in Syncs |-> NoResult]
    /\ hist = [j \in 1..Len(jobs) |-> [claims |-> 0]]
    /\ requeues = 0
    /\ catalog = << >>
    /\ enq = [e \in Producers |-> NoCall]
    /\ mlock = NoProc
    /\ mthreads = [t \in MetricThreads |-> NoMetricCall]
    /\ stop_event = 0
    /\ events = << >>
    /\ SideIdle

ClaimNext ==
    \/ \E p \in Procs : ClaimBegin(p)
    \/ \E p \in Procs : ClaimSelect(p)
    \/ \E p \in Procs : ClaimUpdate(p)

SpecClaim == ClaimInit /\ [][ClaimNext]_vars

-----------------------------------------------------------------------------
(* Two worker loops on a table whose jobs raise in processing every time they
   are claimed; newer jobs keep arriving. *)

RetryInit ==
    /\ \E m \in {1, 3} : jobs = << FreshRow(m) >>
    /\ diags = << >>
    /\ counters = [enqueued |-> 1, processed |-> 0, failed |-> 0, retried |-> 0]
    /\ lock = NoProc
    /\ pc = [p \in Procs |-> IF p \in Workers THEN "begin" ELSE "idle"]
    /\ claimed = [p \in Procs |-> NoClaim]
    /\ row = [p \in Procs |-> NoRow]
    /\ txn = [p \in Procs |-> NoTxn]
    /\ result = [p \in Syncs |-> NoResult]
    /\ hist = << [claims |-> 0] >>
    /\ requeues = 0
    /\ catalog = << >>
    /\ enq = [e \in Producers |-> NoCall]
    /\ mlock = NoProc
    /\ mthreads = [t \in MetricThreads |-> NoMetricCall]
    /\ stop_event = 0
    /\ events = << >>
    /\ SideIdle

RetryNext ==
    \/ Enqueue
    \/ \E w \in Workers : ClaimBegin(w)
    \/ \E w \in Workers : ClaimSelect(w)
    \/ \E w \in Workers : ClaimUpdate(w)
    \/ \E w \in Workers : ClaimError(w)
    \/ \E w \in Workers : WorkerSleep(w)
    \/ \E w \in Workers : ProcRaise(w)
    \/ \E w \in Workers : HandlerSelect(w)
    \/ \E w \in Workers : HandlerUpdate(w)
    \/ \E w \in Workers : HandlerCount(w)
    \/ \E w \in Workers : HandlerCommit(w)
    \/ \E w \in Workers : HandlerError(w)
    \/ Tick

SpecRetry == RetryInit /\ [][RetryNext]_vars

-----------------------------------------------------------------------------
(* routes.py: GET /partner/diagnostics/<diag_id>, asked by an admin *)

NotFound == [status |-> 404]

(* SELECT id, job_id, diagnostics ... WHERE id = ?; json.loads(row[2]) *)
DiagnosticsRow(records, diag_id) ==
    IF diag_id \in 1..Len(records)
    THEN [id          |-> diag_id,
          job_id      |-> records[diag_id].job_id,
          diagnostics |-> json_loads(records[diag_id].diagnostics)]
    ELSE NotFound

partner_diagnostics(diag_id) == DiagnosticsRow(diags, diag_id)

-----------------------------------------------------------------------------
(* A worker loop and a caller of process_next_job_once on a table of fresh
   jobs that are processed without an exception. *)

(* payloads whose diagnostics serialize to 1986, 2000, 2001 and 2017
   characters (validation errors), and 30 items the product table rejects *)
Filled(n, first) ==
    [i \in 1..n |-> IF i <= Len(first) THEN first[i] ELSE "bad"]

LongPayloads ==
    { Filled(63, << >>),
      Filled(63, <<"neg_price", "neg_price", "neg_price", "no_name", "no_name">>),
      Filled(63, <<"str_price", "neg_price">>),
      Filled(64, << >>),
      [i \in 1..30 |-> "big"] }

ProcPayloads ==
    {<< >>, <<"ok">>, <<"ok", "bad", "ok">>, <<"ok", "big">>} \cup LongPayloads

ProcTables ==
    UNION {[1..n -> {NewJob(1, products, NullText, Null) : products \in ProcPayloads}]
           : n \in 1..MaxJobs}

ProcInit ==
    /\ jobs \in ProcTables
    /\ diags = << >>
    /\ counters = [enqueued |-> Len(jobs), processed |-> 0, failed |-> 0, retried |-> 0]
    /\ lock = NoProc
    /\ pc = [p \in Procs |-> IF p = "w1" THEN "begin"
                            ELSE IF p \in Workers THEN "off" ELSE "idle"]
    /\ claimed = [p \in Procs |-> NoClaim]
    /\ row = [p \in Procs |-> NoRow]
    /\ txn = [p \in Procs |-> NoTxn]
    /\ result = [p \in Syncs |-> NoResult]
    /\ hist = [j \in 1..Len(jobs) |-> NewHist]
    /\ requeues = 0
    /\ catalog = << >>
    /\ enq = [e \in Producers |-> NoCall]
    /\ mlock = NoProc
    /\ mthreads = [t \in MetricThreads |-> NoMetricCall]
    /\ stop_event = 0
    /\ events = << >>
    /\ SideIdle

ProcNext ==
    \/ \E p \in Procs : ClaimBegin(p)
    \/ \E p \in Procs : ClaimSelect(p)
    \/ \E p \in Procs : ClaimUpdate(p)
    \/ \E w \in Workers : WorkerSleep(w)
    \/ \E s \in Syncs : SyncCall(s)
    \/ \E p \in Procs : ProcFinish(p)

SpecProc == ProcInit /\ [][ProcNext]_vars

-----------------------------------------------------------------------------
(* enqueue_feed_db statement by statement: the retry loop around the INSERT.
   enq[e] is the call producer e is in: its arguments, the attempt of the
   loop, and a log of how its earlier calls ended. *)

(* max_attempts = 5, the local of enqueue_feed_db *)
enqueue_max_attempts == 5

FeedHashes == {NullText, [sha256 |-> "f1"]}
EnqueuePayloads == {<< >>, <<"ok">>, <<"ok", "bad">>}

(* last_exc: Exception | None = None *)
NoException == [type |-> "None"]

(* what the INSERT or the connect can raise *)
Locked == [type |-> "OperationalError", msg |-> "database is locked"]
OtherErrors == {[type |-> "OperationalError", msg |-> "disk I/O error"],
                [type |-> "IntegrityError", msg |-> "constraint failed"]}

Calls(e) == Len(enq[e].log)
InFlight == {e \in Producers : enq[e].pc # "idle"}

(* the call leaves by an exception *)
Raised(c, exc) ==
    [pc |-> "idle",
     log |-> Append(c.log, [outcome |-> "raised", error |-> exc,
                            attempts |-> c.attempt])]

(* the call returns jid *)
Returned(c) ==
    [pc |-> "idle",
     log |-> Append(c.log, [outcome |-> "returned", jid |-> c.jid,
                            attempts |-> c.attempt])]

(* variant: give up after the second attempt *)
LoopContinuesTwice(attempt) == attempt < 2

(* for attempt in range(1, max_attempts + 1): another attempt follows *)
LoopContinues(attempt) == attempt < enqueue_max_attempts

(* variant: every OperationalError is slept on and retried *)
ExceptRetryAll(c, exc) ==
    IF LoopContinues(c.attempt)
    THEN [c EXCEPT !.attempt = @ + 1, !.last_exc = exc]
    ELSE Raised(c, exc)

(* except sqlite3.OperationalError as e: sleep and continue when the message
   has "database is locked", else raise; after the loop, raise last_exc *)
ExceptOperationalError(c, exc) ==
    IF exc.msg = "database is locked"
    THEN IF LoopContinues(c.attempt)
         THEN [c EXCEPT !.attempt = @ + 1, !.last_exc = exc]
         ELSE Raised(c, exc)
    ELSE Raised(c, exc)

(* an exception in the try body: only sqlite3.OperationalError is caught *)
OnException(c, exc) ==
    IF exc.type = "OperationalError"
    THEN ExceptOperationalError(c, exc)
    ELSE Raised(c, exc)

(* a producer calls enqueue_feed_db(db_path, partner_id, products, feed_hash) *)
EnqueueCall(e) ==
    /\ enq[e].pc = "idle"
    /\ Calls(e) < MaxCalls
    /\ Len(jobs) + Cardinality(InFlight) < MaxJobs
    /\ \E partner_id \in Partners, products \in EnqueuePayloads,
          feed_hash \in FeedHashes :
          enq' = [enq EXCEPT ![e] =
                     [pc |-> "try", attempt |-> 1, last_exc |-> NoException,
                      log |-> enq[e].log,
                      args |-> [partner_id |-> partner_id,
                                products |-> products,
                                feed_hash |-> feed_hash]]]
    /\ UNCHANGED <<jobs, diags, catalog, counters, lock, pc, claimed, row, txn,
                   result, hist, requeues>>
    /\ UNCHANGED <<metrics_vars, thread_vars, side_vars>>

(* connect, INSERT, jid = cur.lastrowid, conn.commit(), conn.close() *)
EnqueueInsert(e) ==
    /\ enq[e].pc = "try"
    /\ lock = NoProc
    /\ \E m \in MaxAttemptsValues :
          jobs' = Append(jobs, NewJob(enq[e].args.partner_id,
                                      enq[e].args.products,
                                      enq[e].args.feed_hash, m))
    /\ hist' = Append(hist, NewHist)
    /\ enq' = [enq EXCEPT ![e] =
                  [pc |-> "commit", attempt |-> enq[e].attempt,
                   last_exc |-> enq[e].last_exc,
                   log |-> enq[e].log, args |-> enq[e].args,
                   jid |-> Len(jobs) + 1]]
    /\ UNCHANGED <<diags, catalog, counters, lock, pc, claimed, row, txn,
                   result, requeues>>
    /\ UNCHANGED <<metrics_vars, thread_vars, side_vars>>

(* incr("enqueued"); return jid *)
EnqueueReturn(e) ==
    /\ enq[e].pc = "commit"
    /\ counters' = incr(counters, "enqueued")
    /\ enq' = [enq EXCEPT ![e] = Returned(@)]
    /\ UNCHANGED <<jobs, diags, catalog, lock, pc, claimed, row, txn, result,
                   hist, requeues>>
    /\ UNCHANGED <<metrics_vars, thread_vars, side_vars>>

(* the INSERT waited the whole connect timeout for the write lock *)
EnqueueLocked(e) ==
    /\ enq[e].pc = "try"
    /\ lock # NoProc
    /\ enq' = [enq EXCEPT ![e] = OnException(@, Locked)]
    /\ UNCHANGED <<jobs, diags, catalog, counters, lock, pc, claimed, row, txn,
                   result, hist, requeues>>
    /\ UNCHANGED <<metrics_vars, thread_vars, side_vars>>

(* the connect or the INSERT raises something else *)
EnqueueOtherError(e) ==
    /\ enq[e].pc = "try"
    /\ \E exc \in OtherErrors : enq' = [enq EXCEPT ![e] = OnException(@, exc)]
    /\ UNCHANGED <<jobs, diags, catalog, counters, lock, pc, claimed, row, txn,
                   result, hist, requeues>>
    /\ UNCHANGED <<metrics_vars, thread_vars, side_vars>>

(* producers next to one worker loop, from an empty table *)
EnqueueNext ==
    \/ \E e \in Producers : EnqueueCall(e)
    \/ \E e \in Producers : EnqueueInsert(e)
    \/ \E e \in Producers : EnqueueReturn(e)
    \/ \E e \in Producers : EnqueueLocked(e)
    \/ \E e \in Producers : EnqueueOtherError(e)
    \/ \E w \in Workers : ClaimBegin(w)
    \/ \E w \in Workers : ClaimSelect(w)
    \/ \E w \in Workers : ClaimUpdate(w)
    \/ \E w \in Workers : ProcFinish(w)
    \/ \E w \in Workers : WorkerSleep(w)

SpecEnqueue == Init /\ [][EnqueueNext]_vars

-----------------------------------------------------------------------------
(* Two worker loops on a table of jobs with every kind of payload; each time
   a job is processed the try body either runs to its commit or raises. *)

WorkRows == {NewJob(1, products, NullText, m) :
                products \in {<< >>, <<"ok">>, <<"bad">>}, m \in {1, 3}}

WorkInit ==
    /\ \E n \in 1..MaxJobs : jobs \in [1..n -> WorkRows]
    /\ diags = << >>
    /\ counters = [enqueued |-> Len(jobs), processed |-> 0, failed |-> 0, retried |-> 0]
    /\ lock = NoProc
    /\ pc = [p \in Procs |-> IF p \in Workers THEN "begin" ELSE "idle"]
    /\ claimed = [p \in Procs |-> NoClaim]
    /\ row = [p \in Procs |-> NoRow]
    /\ txn = [p \in Procs |-> NoTxn]
    /\ result = [p \in Syncs |-> NoResult]
    /\ hist = [j \in 1..Len(jobs) |-> [claims |-> 0]]
    /\ requeues = 0
    /\ catalog = << >>
    /\ enq = [e \in Producers |-> NoCall]
    /\ mlock = NoProc
    /\ mthreads = [t \in MetricThreads |-> NoMetricCall]
    /\ stop_event = 0
    /\ events = << >>
    /\ SideIdle

WorkNext ==
    \/ \E w \in Workers : ClaimBegin(w)
    \/ \E w \in Workers : ClaimSelect(w)
    \/ \E w \in Workers : ClaimUpdate(w)
    \/ \E w \in Workers : ClaimError(w)
    \/ \E w \in Workers : WorkerSleep(w)
    \/ \E w \in Workers : ProcFinish(w)
    \/ \E w \in Workers : ProcRaise(w)
    \/ \E w \in Workers : HandlerSelect(w)
    \/ \E w \in Workers : HandlerUpdate(w)
    \/ \E w \in Workers : HandlerCount(w)
    \/ \E w \in Workers : HandlerCommit(w)
    \/ \E w \in Workers : HandlerError(w)
    \/ Tick

SpecWork == WorkInit /\ [][WorkNext]_vars

-----------------------------------------------------------------------------
(* process_next_job_once called again and again next to two polling workers,
   on every table; time passes, so waiting rows become due. *)

PollInit ==
    /\ jobs \in Tables
    /\ diags = << >>
    /\ counters = [enqueued |-> Len(jobs), processed |-> 0, failed |-> 0, retried |-> 0]
    /\ lock = NoProc
    /\ pc = [p \in Procs |-> IF p \in Workers THEN "begin" ELSE "idle"]
    /\ claimed = [p \in Procs |-> NoClaim]
    /\ row = [p \in Procs |-> NoRow]
    /\ txn = [p \in Procs |-> NoTxn]
    /\ result = [p \in Syncs |-> NoResult]
    /\ hist = [j \in 1..Len(jobs) |-> [claims |-> 0]]
    /\ requeues = 0
    /\ catalog = << >>
    /\ enq = [e \in Producers |-> NoCall]
    /\ mlock = NoProc
    /\ mthreads = [t \in MetricThreads |-> NoMetricCall]
    /\ stop_event = 0
    /\ events = << >>
    /\ SideIdle

PollNext ==
    \/ \E s \in Syncs : SyncCall(s)
    \/ \E p \in Procs : ClaimBegin(p)
    \/ \E p \in Procs : ClaimSelect(p)
    \/ \E p \in Procs : ClaimUpdate(p)
    \/ \E p \in Procs : ClaimError(p)
    \/ \E w \in Workers : WorkerSleep(w)
    \/ \E p \in Procs : ProcFinish(p)
    \/ Tick

SpecPoll == PollInit /\ [][PollNext]_vars

-----------------------------------------------------------------------------
(* metrics.py statement by statement: threads calling incr(name, n) and
   get_metrics() on the module dictionary _counters under _lock.
   mthreads[t] is the call thread t is in, with the increments it has
   completed (applied) and the dictionaries get_metrics returned to it
   (seen). *)

MetricNames == {"enqueued", "processed", "failed", "retried"}
IncrNames == {"enqueued", "failed"}
IncrAmounts == {1, 2}

(* counter values when the threads start *)
StartCounters == [enqueued |-> 3, processed |-> 0, failed |-> 1, retried |-> 0]

MetricCalls(t) == Len(mthreads[t].applied) + Len(mthreads[t].seen)

(* variant: a with-block that does not wait for the lock *)
LockNotTaken == TRUE

(* with _lock: the lock is free *)
LockFree == mlock = NoProc

(* variant: get_metrics hands out the dictionary itself *)
SameDict(c) == [copy |-> FALSE, value |-> c]

(* dict(_counters): a new dictionary with the current items *)
CopyOfDict(c) == [copy |-> TRUE, value |-> c]

(* what a caller reads in a dictionary it was given, the module dictionary
   being c now *)
ReadDict(d, c) == IF d.copy THEN d.value ELSE c

(* a thread calls incr(name, n) *)
IncrCall(t) ==
    /\ mthreads[t].pc = "idle"
    /\ MetricCalls(t) < MaxMetricCalls
    /\ \E name \in IncrNames, n \in IncrAmounts :
          mthreads' = [mthreads EXCEPT ![t] =
                          [pc |-> "enter", op |-> "incr", name |-> name, n |-> n,
                           tmp |-> 0, applied |-> @.applied, seen |-> @.seen]]
    /\ UNCHANGED <<queue_vars, mlock, thread_vars, side_vars>>

(* a thread calls get_metrics() *)
GetMetricsCall(t) ==
    /\ mthreads[t].pc = "idle"
    /\ MetricCalls(t) < MaxMetricCalls
    /\ mthreads' = [mthreads EXCEPT ![t] =
                       [pc |-> "enter", op |-> "get", name |-> "", n |-> 0,
                        tmp |-> 0, applied |-> @.applied, seen |-> @.seen]]
    /\ UNCHANGED <<queue_vars, mlock, thread_vars, side_vars>>

(* with _lock: __enter__ *)
MetricsAcquire(t) ==
    /\ mthreads[t].pc = "enter"
    /\ LockFree
    /\ mlock' = t
    /\ mthreads' = [mthreads EXCEPT ![t].pc = "locked"]
    /\ UNCHANGED <<queue_vars, thread_vars, side_vars>>

(* _counters.setdefault(name, 0) and the read of _counters[name] += n *)
IncrRead(t) ==
    /\ mthreads[t].pc = "locked"
    /\ mthreads[t].op = "incr"
    /\ mthreads' = [mthreads EXCEPT ![t].pc = "read",
                                    ![t].tmp = counters[mthreads[t].name]]
    /\ UNCHANGED <<queue_vars, mlock, thread_vars, side_vars>>

(* the store of _counters[name] += n, the end of the with-block, return *)
IncrWrite(t) ==
    /\ mthreads[t].pc = "read"
    /\ counters' = [counters EXCEPT ![mthreads[t].name] =
                       mthreads[t].tmp + mthreads[t].n]
    /\ mlock' = NoProc
    /\ mthreads' = [mthreads EXCEPT ![t] =
                       [pc |-> "idle",
                        applied |-> Append(@.applied,
                                           [name |-> @.name, n |-> @.n]),
                        seen |-> @.seen]]
    /\ UNCHANGED <<jobs, diags, lock, pc, claimed, row, txn, result, hist,
                   requeues, catalog, enq, thread_vars, side_vars>>

(* return dict(_counters), the end of the with-block *)
GetMetricsCopy(t) ==
    /\ mthreads[t].pc = "locked"
    /\ mthreads[t].op = "get"
    /\ mlock' = NoProc
    /\ mthreads' = [mthreads EXCEPT ![t] =
                       [pc |-> "idle", applied |-> @.applied,
                        seen |-> Append(@.seen, CopyOfDict(counters))]]
    /\ UNCHANGED <<queue_vars, thread_vars, side_vars>>

MetricsInit ==
    /\ jobs = << >>
    /\ diags = << >>
    /\ counters = StartCounters
    /\ lock = NoProc
    /\ pc = [p \in Procs |-> IF p \in Workers THEN "off" ELSE "idle"]
    /\ claimed = [p \in Procs |-> NoClaim]
    /\ row = [p \in Procs |-> NoRow]
    /\ txn = [p \in Procs |-> NoTxn]
    /\ result = [p \in Syncs |-> NoResult]
    /\ hist = << >>
    /\ requeues = 0
    /\ catalog = << >>
    /\ enq = [e \in Producers |-> NoCall]
    /\ mlock = NoProc
    /\ mthreads = [t \in MetricThreads |-> NoMetricCall]
    /\ stop_event = 0
    /\ events = << >>
    /\ SideIdle

MetricsNext ==
    \/ \E t \in MetricThreads : IncrCall(t)
    \/ \E t \in MetricThreads : GetMetricsCall(t)
    \/ \E t \in MetricThreads : MetricsAcquire(t)
    \/ \E t \in MetricThreads : IncrRead(t)
    \/ \E t \in MetricThreads : IncrWrite(t)
    \/ \E t \in MetricThreads : GetMetricsCopy(t)

SpecMetrics == MetricsInit /\ [][MetricsNext]_vars

-----------------------------------------------------------------------------
(* Properties *)

(* processes between the return of their claim and their final write *)
Processing == {"proc", "handler", "h_update", "h_count", "h_commit"}
Holders(j) == {p \in Procs : pc[p] \in Processing /\ claimed[p].jid = j}

(* the claim call of p has returned None / has returned a job *)
ReturnedNone(p) ==
    /\ pc[p] = AfterNone(p)
    /\ claimed[p] = NoClaim
    /\ p \in Syncs => result[p] = [status |-> "None"]
ReturnedJob(p) == pc[p] = "proc"

AllReturned == \A p \in Procs : ReturnedNone(p) \/ ReturnedJob(p)

(* rows that are pending with next_run null or not later than now *)
ReadyRows ==
    {j \in JobIds : jobs[j].status = "pending"
                    /\ (jobs[j].next_run = Null \/ jobs[j].next_run <= 0)}

GotJob == {p \in Procs : ReturnedJob(p)}
ReturnedIds == {claimed[p].jid : p \in GotJob}

(* C1: once N concurrent claim calls against M eligible pending jobs have all
   returned (N >= M, no other writer), exactly M of them returned a job, the
   returned ids are pairwise distinct and are exactly the M eligible jobs (the
   jobs returned together with those still eligible), and the other N-M calls
   returned None. *)
C1_ConcurrentClaims ==
    AllReturned =>
        LET M == ReturnedIds \cup ReadyRows
        IN  Cardinality(Procs) >= Cardinality(M) =>
                /\ Cardinality(GotJob) = Cardinality(M)
                /\ Cardinality(ReturnedIds) = Cardinality(GotJob)
                /\ ReturnedIds = M
                /\ \A j \in ReturnedIds :
                      /\ jobs[j].status = "in_progress"
                      /\ hist[j].claims = 1
                /\ \A p \in Procs \ GotJob : ReturnedNone(p)

(* C1 witness: all three calls have returned, two with different jobs, one
   with None *)
C1_Witness ==
    /\ AllReturned
    /\ Cardinality(ReturnedIds) = 2
    /\ \E p \in Procs : ReturnedNone(p)

(* C2: in every reachable state no job is being processed by two processes at
   once: between a process's claim of job j and its final status write for j
   no other claim returns j. *)
C2_OneWorkerPerJob == \A j \in JobIds : Cardinality(Holders(j)) <= 1

-----------------------------------------------------------------------------
(* The worker loops of SpecRetry under fair scheduling: a thread that can take
   its next step takes it, a connection that waits for the write lock gets it
   when it is free again and again, and time passes. *)
WorkerFair(w) ==
    /\ SF_vars(ClaimBegin(w))
    /\ WF_vars(ClaimSelect(w))
    /\ WF_vars(ClaimUpdate(w))
    /\ WF_vars(WorkerSleep(w))
    /\ WF_vars(ProcRaise(w))
    /\ WF_vars(HandlerSelect(w))
    /\ SF_vars(HandlerUpdate(w))
    /\ WF_vars(HandlerCount(w))
    /\ WF_vars(HandlerCommit(w))

LiveRetry ==
    /\ RetryInit
    /\ [][RetryNext]_vars
    /\ \A w \in Workers : WorkerFair(w)
    /\ WF_vars(Tick)

Final(j) == j \in JobIds /\ jobs[j].status \in {"done", "failed"}

(* C3: at-least-once delivery: with the worker loops running and scheduled
   fairly, every job that was enqueued eventually reaches done or failed, also
   when a storage error occurs while a worker claims or finalises it. *)
C3_EventuallyFinal == \A j \in 1..MaxJobs : [](j \in JobIds => <>Final(j))

-----------------------------------------------------------------------------
(* p's claim call returns in this step with a job / leaves the SELECT *)
ClaimReturns(p) == pc[p] = "update" /\ pc'[p] = "proc"
LeavesSelect(p) == pc[p] = "select" /\ pc'[p] # "select"

(* the stored value of max_attempts as the claim reports it *)
ReportedMax(m) == IF m = Null THEN 5 ELSE m

C4_Step(p) ==
    /\ (LeavesSelect(p) /\ ReadyRows # {}) => pc'[p] = "update"
    /\ ClaimReturns(p) =>
          /\ ReadyRows # {}
          /\ LET j == MinOf(ReadyRows)
             IN  /\ claimed'[p].jid = j
                 /\ claimed'[p].partner_id = jobs[j].partner_id
                 /\ [json |-> claimed'[p].products] = jobs[j].payload
                 /\ claimed'[p].attempts = jobs[j].attempts
                 /\ claimed'[p].max_attempts = ReportedMax(jobs[j].max_attempts)
                 /\ jobs'[j].status = "in_progress"
                 /\ jobs'[j].attempts = jobs[j].attempts + 1
                 /\ jobs' = [jobs EXCEPT ![j].status = "in_progress",
                                         ![j].attempts = jobs[j].attempts + 1]

(* C4: when at least one job is eligible, the claim returns the eligible job
   with the lowest id, sets only that job to in_progress with attempts increased
   by exactly 1, changes no other job, and returns its id, partner id,
   deserialized payload, the attempts value before the increment, and
   max_attempts. *)
C4_ClaimLowestEligible == [][\A p \in Procs : C4_Step(p)]_vars

(* C4 witness: a claim has returned job 2, the lowest eligible id (job 1 is
   failed), a retried job with attempts 1 before the claim and 2 after it and
   a null max_attempts reported as 5 *)
C4_Witness ==
    \E p \in Procs :
        /\ pc[p] = "proc"
        /\ Len(jobs) = 2
        /\ jobs[1].status = "failed"
        /\ claimed[p].jid = 2
        /\ claimed[p].attempts = 1
        /\ claimed[p].max_attempts = 5
        /\ jobs[2].status = "in_progress"
        /\ jobs[2].attempts = 2

InClaim(p) == pc[p] \in {"begin", "select"} /\ pc'[p] # pc[p]

C5_Step(p) ==
    (InClaim(p) /\ ReadyRows = {}) =>
        /\ pc'[p] \in {"select", AfterNone(p)}
        /\ LeavesSelect(p) => ReturnedNone(p)'
        /\ UNCHANGED <<jobs, diags, counters>>

(* C5: when no job is eligible (no pending job, or every pending job has
   next_run in the future), the claim returns None and no job row, diagnostics
   record or metrics counter changes. *)
C5_NoEligibleNoChange == [][\A p \in Procs : C5_Step(p)]_vars

(* C5 witness: every call has returned None although a pending job is stored,
   its next_run being in the future *)
C5_Witness ==
    /\ \A p \in Procs : ReturnedNone(p)
    /\ \E j \in JobIds : jobs[j].status = "pending" /\ jobs[j].next_run > 0

-----------------------------------------------------------------------------
(* the status changes of the job state machine *)
AllowedChange(r, status) ==
    \/ r.status = "pending" /\ status = "in_progress"
    \/ r.status = "in_progress" /\ status \in {"done", "failed"}
    \/ /\ r.status \in {"in_progress", "failed"}
       /\ status = "pending"
       /\ r.attempts < ReportedMax(r.max_attempts)

(* C6: every change of a job's status is pending to in_progress, in_progress
   to done, in_progress to failed, or a retry back to pending taken only when
   attempts < max_attempts; a job in done never changes status again. *)
C6_StatusMachine ==
    [][\A j \in JobIds :
          jobs'[j].status # jobs[j].status => AllowedChange(jobs[j], jobs'[j].status)]_vars

(* C7 as stated: only a claim changes attempts, by exactly 1, so attempts
   never decreases. *)
C7_OnlyClaimsChangeAttempts ==
    [][\A j \in JobIds :
          jobs'[j].attempts # jobs[j].attempts =>
              /\ jobs'[j].attempts = jobs[j].attempts + 1
              /\ \E p \in Procs : ClaimReturns(p) /\ claimed[p].jid = j]_vars

(* C7: for every job in every reachable state, attempts equals the number of
   times the job has been claimed since it was enqueued or last requeued: each
   claim adds exactly 1, finalisation and retry scheduling leave attempts as it
   is, and a requeue sets attempts back to 0. *)
C7_AttemptsCountClaims == \A j \in JobIds : jobs[j].attempts = hist[j].claims

(* C7 witness: a job that was claimed, requeued and claimed again: one claim
   since the requeue, attempts 1 *)
C7_Witness ==
    \E j \in JobIds :
        /\ requeues = 1
        /\ hist[j].claims = 1
        /\ jobs[j].attempts = 1
        /\ jobs[j].status = "in_progress"
        /\ jobs[j].error = NullText
        /\ \E p \in Procs : pc[p] = "proc" /\ claimed[p].jid = j /\ claimed[p].attempts = 0
        /\ counters.failed > 0

-----------------------------------------------------------------------------
(* Jobs whose processing raises every time (SpecRetry, LiveRetry) *)

Budget(j) == ReportedMax(jobs[j].max_attempts)

C8_State(j) ==
    /\ jobs[j].attempts = hist[j].claims
    /\ hist[j].claims <= Budget(j)
    /\ jobs[j].status # "done"
    /\ (jobs[j].status = "pending" /\ hist[j].claims > 0) =>
           /\ jobs[j].attempts < Budget(j)
           /\ jobs[j].next_run # Null
           /\ jobs[j].error = ErrorText
    /\ jobs[j].status = "failed" => jobs[j].attempts = Budget(j)

(* the handler of w schedules / commits in this step *)
Schedules(w) == pc[w] = "h_update" /\ pc'[w] = "h_count"
Commits(w) == pc[w] = "h_commit" /\ pc'[w] # "h_commit"

C8_Step(j) ==
    /\ jobs[j].status = "failed" => (jobs'[j] = jobs[j] /\ hist'[j] = hist[j])
    /\ \A w \in Workers :
          /\ (Schedules(w) /\ claimed[w].jid = j) =>
                IF jobs[j].attempts < Budget(j)
                THEN txn'[w].status = "pending" /\ txn'[w].next_run >= 1
                ELSE txn'[w].status = "failed"
          /\ (Commits(w) /\ claimed[w].jid = j) =>
                IF jobs[j].attempts < Budget(j)
                THEN jobs'[j].status = "pending" /\ jobs'[j].attempts = hist[j].claims
                ELSE jobs'[j].status = "failed" /\ jobs'[j].attempts = Budget(j)

Exhausted(j) ==
    /\ j \in JobIds
    /\ jobs[j].status = "failed"
    /\ jobs[j].attempts = Budget(j)
    /\ hist[j].claims = Budget(j)

(* the handler of the worker that held j did not get the write lock: j stays
   in_progress and no worker holds it *)
Abandoned(j) == j \in JobIds /\ jobs[j].status = "in_progress" /\ Holders(j) = {}

(* C8: a job with max_attempts = k whose processing raises on every attempt:
   after each of the first k-1 failures the handler puts it back in pending
   with next_run in the future and attempts equal to the number of claims so
   far; the k-th failure marks it failed with attempts = k, a failed job is
   never claimed or changed again, and unless a handler is cut short by a
   storage error every job ends failed after exactly k claims. *)
C8_RetryUntilExhausted ==
    /\ [](\A j \in JobIds : C8_State(j))
    /\ [][\A j \in JobIds : C8_Step(j)]_vars
    /\ \A j \in 1..MaxJobs : [](j \in JobIds => <>(Exhausted(j) \/ Abandoned(j)))

(* C8 witness: the job with max_attempts = 3 is failed after three claims *)
C8_Witness ==
    /\ jobs[1].max_attempts = 3
    /\ jobs[1].status = "failed"
    /\ jobs[1].attempts = 3
    /\ hist[1].claims = 3
    /\ counters.retried = 2

(* C9: a job whose next_run is later than the current time is never returned
   by a claim: the job a claim has selected or returned has next_run null or
   reached, also after a retry was scheduled for it. *)
C9_NotBeforeNextRun ==
    \A p \in Procs :
        pc[p] \in {"update", "proc"} =>
            \/ jobs[claimed[p].jid].next_run = Null
            \/ jobs[claimed[p].jid].next_run <= 0

(* C9 witness: a newer job with null next_run has been claimed while the older
   job waits in pending for its next_run after a retry was scheduled *)
C9_Witness ==
    \E p \in Procs :
        /\ pc[p] = "proc"
        /\ claimed[p].jid = 2
        /\ jobs[2].next_run = Null
        /\ jobs[1].status = "pending"
        /\ jobs[1].attempts >= 1
        /\ jobs[1].next_run > 0

(* C10: FIFO by id: when a claim selects job b, no job a with a lower id is
   pending with null next_run, so of two such jobs the lower id is claimed
   first, whatever the number of concurrent callers. *)
C10_FifoById ==
    \A p \in Procs :
        pc[p] = "update" =>
            \A a \in JobIds :
                a < claimed[p].jid =>
                    ~(jobs[a].status = "pending" /\ jobs[a].next_run = Null)

(* C10 witness: both jobs were pending with null next_run; job 1 has been
   claimed and a later call is claiming job 2 *)
C10_Witness ==
    \E p \in Procs :
        /\ pc[p] = "update"
        /\ claimed[p].jid = 2
        /\ jobs[2].next_run = Null
        /\ jobs[1].status = "in_progress"
        /\ jobs[1].next_run = Null
        /\ hist[1].claims = 1
        /\ \E q \in Procs : pc[q] = "proc" /\ claimed[q].jid = 1

-----------------------------------------------------------------------------
(* Per-job processing without exceptions (SpecProc) *)

Range(f) == {f[i] : i \in DOMAIN f}

(* the payload of job j as enqueued, and the positions of its items that break
   a validation rule / that the product table rejects / that are written *)
PayloadOf(j) == jobs[j].payload.json
BadAt(j) == {i \in DOMAIN PayloadOf(j) : PayloadOf(j)[i] \in Rejected}
BigAt(j) == {i \in DOMAIN PayloadOf(j) : PayloadOf(j)[i] = "big"}
OkAt(j) == {i \in DOMAIN PayloadOf(j) : PayloadOf(j)[i] = "ok"}

(* job j has its final status *)
Finalised(j) == jobs[j].status \in {"done", "failed"}

(* the diagnostics summary of job j as a reader gets it: from the job row, or
   by the stored link from the diagnostics records *)
Summary(r, records) ==
    LET d == json_loads(r.diagnostics)
    IN  IF "errors_link" \in DOMAIN d
        THEN DiagnosticsRow(records, d.errors_link.diag_id).diagnostics
        ELSE d

SummaryOf(j) == Summary(jobs[j], diags)

UpsertCalls(j) == {c \in DOMAIN catalog : catalog[c].job_id = j}

(* C11: for a job whose payload has at least one item that fails validation,
   the worker loop and process_next_job_once make no catalog upsert call (the
   catalog holds nothing of the job), and once finalised the job is failed with
   diagnostics accepted = 0, rejected = number of validation errors, errors =
   the error list, and error = the serialized error list. *)
C11_RejectWholeBatch ==
    \A j \in JobIds :
        BadAt(j) # {} =>
            /\ UpsertCalls(j) = {}
            /\ Finalised(j) =>
                  /\ jobs[j].status = "failed"
                  /\ jobs[j].diagnostics # NullText
                  /\ SummaryOf(j).accepted = 0
                  /\ SummaryOf(j).rejected = Cardinality(BadAt(j))
                  /\ Len(SummaryOf(j).errors) = Cardinality(BadAt(j))
                  /\ {e.item + 1 : e \in Range(SummaryOf(j).errors)} = BadAt(j)
                  /\ \A e \in Range(SummaryOf(j).errors) :
                        e.msg = ValidationMessage[PayloadOf(j)[e.item + 1]]
                  /\ jobs[j].error = [json |-> SummaryOf(j).errors]

(* C11 witness: a batch whose item 2 of 3 fails validation was processed by
   process_next_job_once and one by the worker loop: both failed, rejected = 1,
   nothing in the catalog *)
C11_Witness ==
    /\ Len(jobs) = 2
    /\ \A j \in JobIds :
          /\ PayloadOf(j) = <<"ok", "bad", "ok">>
          /\ jobs[j].status = "failed"
          /\ SummaryOf(j).rejected = 1
    /\ catalog = << >>
    /\ result["s1"].status = "failed"
    /\ pc["w1"] = "begin"
    /\ hist[1].claims = 1 /\ hist[2].claims = 1

(* the try body of p ends in this step without raising *)
Finishes(p) == pc[p] = "proc" /\ pc'[p] \notin {"proc", "handler"}

C12_Step(w) ==
    LET j == claimed[w].jid
    IN  (Finishes(w) /\ PayloadOf(j) # << >> /\ BadAt(j) = {}) =>
            /\ Len(catalog') = Len(catalog) + 1
            /\ SubSeq(catalog', 1, Len(catalog)) = catalog
            /\ catalog'[Len(catalog')].job_id = j
            /\ catalog'[Len(catalog')].products = PayloadOf(j)
            /\ Len(catalog'[Len(catalog')].written) = Cardinality(OkAt(j))
            /\ jobs'[j].status = "done"
            /\ jobs'[j].processed_at # Null
            /\ jobs'[j].diagnostics # NullText
            /\ Summary(jobs'[j], diags').accepted = Cardinality(OkAt(j))
            /\ Summary(jobs'[j], diags').rejected = Cardinality(BigAt(j))
            /\ Len(Summary(jobs'[j], diags').errors) = Cardinality(BigAt(j))
            /\ {e.item + 1 : e \in Range(Summary(jobs'[j], diags').errors)} = BigAt(j)
            /\ counters' = [counters EXCEPT !.processed = @ + 1]

(* C12: when validation reports no errors for a non-empty payload, the worker
   calls the catalog upsert exactly once with the valid items and marks the job
   done with processed_at set and diagnostics accepted = upserted count,
   rejected = number of upsert errors, errors = the upsert errors, and
   increments processed exactly once, also when the upsert reports per-item
   errors. *)
C12_UpsertOnceAndDone == [][\A w \in Workers : C12_Step(w)]_vars

(* C12 witness: the worker finished a batch of one good item and one the
   product table rejected: done, accepted 1, rejected 1, processed 1 *)
C12_Witness ==
    /\ Len(jobs) = 1
    /\ PayloadOf(1) = <<"ok", "big">>
    /\ jobs[1].status = "done"
    /\ jobs[1].processed_at # Null
    /\ SummaryOf(1).accepted = 1
    /\ SummaryOf(1).rejected = 1
    /\ Len(catalog) = 1
    /\ catalog[1].written = <<"ok">>
    /\ counters.processed = 1

C13_Step(w) ==
    LET j == claimed[w].jid
    IN  (Finishes(w) /\ PayloadOf(j) = << >>) =>
            /\ jobs'[j].status = "done"
            /\ jobs'[j].processed_at # Null
            /\ jobs' = [jobs EXCEPT ![j].status = "done",
                                    ![j].processed_at = jobs'[j].processed_at]
            /\ jobs'[j].diagnostics = NullText
            /\ jobs'[j].error = NullText
            /\ counters' = [counters EXCEPT !.processed = @ + 1]
            /\ UNCHANGED <<catalog, diags>>

(* C13: a claimed job with an empty payload is marked done by the worker with
   processed_at set and the processed counter incremented exactly once; the
   catalog is not touched, and neither diagnostics (on the row or as a record)
   nor an error is written. *)
C13_EmptyPayloadDone == [][\A w \in Workers : C13_Step(w)]_vars

(* C13 witness: the worker has finished two empty runs *)
C13_Witness ==
    /\ Len(jobs) = 2
    /\ \A j \in JobIds :
          /\ PayloadOf(j) = << >>
          /\ jobs[j].status = "done"
          /\ jobs[j].processed_at # Null
          /\ jobs[j].diagnostics = NullText
    /\ counters.processed = 2
    /\ catalog = << >>
    /\ diags = << >>

(* the summary the processing of job j computes *)
FullSummary(j) ==
    IF BadAt(j) # {}
    THEN ValidationDiag(validate_products(PayloadOf(j)).errors)
    ELSE UpsertDiag(upsert_products(PayloadOf(j)))

RecordsOf(j) == {d \in DOMAIN diags : diags[d].job_id = j}

(* C14: for every job finalised with a diagnostics summary: if the serialized
   summary is at most 2000 bytes the job's diagnostics field holds the summary
   itself (and no record is written); otherwise exactly one diagnostics record
   holding the serialized summary is written for the job id, the job's
   diagnostics field holds the link to that record's id, and the lookup by
   the stored link returns the full summary. *)
C14_OffloadRoundTrip ==
    \A j \in JobIds :
        (Finalised(j) /\ jobs[j].diagnostics # NullText) =>
            IF SerializedLen(FullSummary(j)) <= 2000
            THEN /\ jobs[j].diagnostics = [json |-> FullSummary(j)]
                 /\ RecordsOf(j) = {}
            ELSE /\ Cardinality(RecordsOf(j)) = 1
                 /\ \A d \in RecordsOf(j) :
                       /\ diags[d].diagnostics = [json |-> FullSummary(j)]
                       /\ DOMAIN jobs[j].diagnostics.json = {"errors_link"}
                       /\ jobs[j].diagnostics.json.errors_link.diag_id = d
                       /\ partner_diagnostics(
                              jobs[j].diagnostics.json.errors_link.diag_id).diagnostics
                          = FullSummary(j)

(* C14 witness: a summary of exactly 2000 characters is stored on the row, one
   of 2001 characters in a record that the row links to *)
C14_Witness ==
    /\ Len(jobs) = 2
    /\ Finalised(1) /\ Finalised(2)
    /\ SerializedLen(FullSummary(1)) = 2000
    /\ jobs[1].diagnostics = [json |-> FullSummary(1)]
    /\ SerializedLen(FullSummary(2)) = 2001
    /\ Len(diags) = 1
    /\ diags[1].job_id = 2
    /\ SummaryOf(2) = FullSummary(2)

(* steps of one enqueue_feed_db call *)
Inserts(e) == enq[e].pc = "try" /\ enq'[e].pc = "commit"
Returns(e) == enq[e].pc = "commit" /\ enq'[e].pc = "idle"
Raises(e) == enq[e].pc = "try" /\ enq'[e].pc = "idle"
Retries(e) == /\ enq[e].pc = "try" /\ enq'[e].pc = "try"
              /\ enq'[e].attempt # enq[e].attempt

(* how the calls so far ended *)
Outcomes == {<<e, i>> \in Producers \X (1..MaxCalls + 1) : i <= Len(enq[e].log)}
ReturnedCalls == {c \in Outcomes : enq[c[1]].log[c[2]].outcome = "returned"}
RaisedCalls == {c \in Outcomes : enq[c[1]].log[c[2]].outcome = "raised"}
Committing == {e \in Producers : enq[e].pc = "commit"}
EnqueuedIds == {enq[c[1]].log[c[2]].jid : c \in ReturnedCalls}
AssignedIds == EnqueuedIds \cup {enq[e].jid : e \in Committing}
LastOutcome(c) == c.log[Len(c.log)]

(* C15: the insert of an enqueue call appends exactly one row, pending, with
   attempts 0, null next_run, the given items as payload and the given
   fingerprint as feed_hash, and changes no existing row; its id is greater
   than every id assigned before; the call returns that id, which no earlier
   call returned; no other step of a call changes the table's size. *)
C15_Step(e) ==
    /\ Inserts(e) =>
          /\ Len(jobs') = Len(jobs) + 1
          /\ \A j \in JobIds : jobs'[j] = jobs[j]
          /\ LET r == jobs'[Len(jobs')]
             IN  /\ r.status = "pending"
                 /\ r.attempts = 0
                 /\ r.next_run = Null
                 /\ r.partner_id = enq[e].args.partner_id
                 /\ json_loads(r.payload) = enq[e].args.products
                 /\ r.feed_hash = enq[e].args.feed_hash
          /\ enq'[e].jid = Len(jobs')
          /\ \A i \in AssignedIds : enq'[e].jid > i
    /\ Returns(e) =>
          /\ jobs' = jobs
          /\ LastOutcome(enq'[e]).outcome = "returned"
          /\ LastOutcome(enq'[e]).jid = enq[e].jid
          /\ enq[e].jid \notin EnqueuedIds
          /\ json_loads(jobs[enq[e].jid].payload) = enq[e].args.products
          /\ jobs[enq[e].jid].feed_hash = enq[e].args.feed_hash
    /\ (Retries(e) \/ Raises(e)) => jobs' = jobs

C15_EnqueueAddsOneRow ==
    [][/\ \A e \in Producers : C15_Step(e)
       /\ Len(jobs') # Len(jobs) =>
             Cardinality({e \in Producers : Inserts(e)}) = 1]_vars

(* C15 witness: two calls have returned the ids 1 and 2, the second row is
   still pending and carries a fingerprint *)
C15_Witness ==
    /\ EnqueuedIds = {1, 2}
    /\ Len(jobs) = 2
    /\ jobs[2].status = "pending"
    /\ jobs[2].feed_hash # NullText
    /\ jobs[2].payload = json_dumps(<<"ok", "bad">>)

(* C16: a call is at attempt 1..5 and every ended call took 1..5 attempts; a
   call moves to its next attempt only after a "database is locked" error,
   without touching table or counters; the insert that succeeds ends the
   loop at that attempt; the contention error is raised only at attempt 5;
   the table has exactly one row per call that returned or is about to. *)
C16_Attempts ==
    /\ \A e \in InFlight : enq[e].attempt \in 1..5
    /\ \A c \in Outcomes : enq[c[1]].log[c[2]].attempts \in 1..5
    /\ \A c \in RaisedCalls :
          enq[c[1]].log[c[2]].error = Locked => enq[c[1]].log[c[2]].attempts = 5
    /\ Len(jobs) = Cardinality(ReturnedCalls) + Cardinality(Committing)

C16_Step(e) ==
    /\ Retries(e) =>
          /\ enq'[e].attempt = enq[e].attempt + 1
          /\ enq'[e].last_exc = Locked
          /\ lock # NoProc
          /\ jobs' = jobs /\ counters' = counters
    /\ Inserts(e) => enq'[e].attempt = enq[e].attempt
    /\ Returns(e) => LastOutcome(enq'[e]).attempts = enq[e].attempt
    /\ (Raises(e) /\ LastOutcome(enq'[e]).error = Locked) =>
          /\ enq[e].attempt = 5
          /\ lock # NoProc

C16_BoundedRetry ==
    /\ []C16_Attempts
    /\ [][\A e \in Producers : C16_Step(e)]_vars

(* C16 witness: one call raised the contention error after five attempts and
   created no row, the other returned at its third attempt *)
C16_Witness ==
    /\ \E c \in RaisedCalls :
          /\ enq[c[1]].log[c[2]].error = Locked
          /\ enq[c[1]].log[c[2]].attempts = 5
    /\ \E c \in ReturnedCalls : enq[c[1]].log[c[2]].attempts = 3
    /\ Len(jobs) = 1

(* C17: an error of the insert other than "database is locked" ends the call
   at the attempt where it occurs: no call goes on to another attempt after
   such an error, and the step that raises it leaves table and counters
   unchanged and reports the attempt it occurred at. *)
C17_Step(e) ==
    /\ (enq'[e].pc = "try") => enq'[e].last_exc \notin OtherErrors
    /\ (Raises(e) /\ LastOutcome(enq'[e]).error \in OtherErrors) =>
          /\ LastOutcome(enq'[e]).attempts = enq[e].attempt
          /\ jobs' = jobs
          /\ counters' = counters

C17_NoRetryOnOtherErrors ==
    [][\A e \in Producers : C17_Step(e)]_vars

(* C17 witness: a call ended by a disk error at its third attempt and one by
   an error that is no OperationalError; no row, nothing counted *)
C17_Witness ==
    /\ \E c \in RaisedCalls :
          /\ enq[c[1]].log[c[2]].error.msg = "disk I/O error"
          /\ enq[c[1]].log[c[2]].attempts = 3
    /\ \E c \in RaisedCalls :
          enq[c[1]].log[c[2]].error.type = "IntegrityError"
    /\ jobs = << >>
    /\ counters.enqueued = 0

(* C18: in every state the enqueued counter equals the number of enqueue
   calls that have returned: a returning call adds one, a raising call and a
   contention retry add nothing. *)
C18_EnqueuedCountsReturns ==
    counters.enqueued = Cardinality(ReturnedCalls)

(* C18 witness: one call returned at its fourth attempt, one raised; the
   counter is 1 *)
C18_Witness ==
    /\ \E c \in ReturnedCalls : enq[c[1]].log[c[2]].attempts = 4
    /\ RaisedCalls # {}
    /\ counters.enqueued = 1

RECURSIVE SumTo(_, _)
SumTo(f, n) == IF n = 0 THEN 0 ELSE f[n] + SumTo(f, n - 1)

(* exceptions of job j the handler has counted in failed / in retried, read
   off the row and the worker that holds it: every claim but the current one
   ended in a handled exception, unless the job was finished by the try body
   or its handler was cut short *)
HandledBefore(j) ==
    IF Holders(j) # {} THEN jobs[j].attempts - 1
    ELSE IF jobs[j].status = "pending" THEN jobs[j].attempts
    ELSE IF jobs[j].status = "failed" /\ jobs[j].error = ErrorText
         THEN jobs[j].attempts
    ELSE jobs[j].attempts - 1

FailedBy(j) ==
    HandledBefore(j)
    + Cardinality({w \in Holders(j) : pc[w] = "h_commit"})

RetriedBy(j) ==
    (IF Holders(j) = {} /\ jobs[j].status = "failed" /\ jobs[j].error = ErrorText
     THEN jobs[j].attempts - 1
     ELSE HandledBefore(j))
    + Cardinality({w \in Holders(j) : pc[w] \in {"h_count", "h_commit"}
                                      /\ txn[w].status = "pending"})

(* the worker is between incr("retried") and incr("failed") *)
Counting == {w \in Workers : pc[w] = "h_count" /\ txn[w].status = "pending"}

C19_Counts ==
    /\ counters.failed = SumTo([j \in JobIds |-> FailedBy(j)], Len(jobs))
    /\ counters.retried = SumTo([j \in JobIds |-> RetriedBy(j)], Len(jobs))
    /\ \A j \in JobIds :
          (Exhausted(j) /\ jobs[j].error = ErrorText /\ Len(jobs) = 1) =>
              /\ counters.failed = Budget(j)
              /\ counters.retried = Budget(j) - 1

C19_Step ==
    /\ counters'.failed # counters.failed =>
          /\ counters'.failed = counters.failed + 1
          /\ counters'.retried = counters.retried
          /\ \E w \in Workers : pc[w] = "h_count" /\ pc'[w] = "h_commit"
    /\ counters'.retried # counters.retried =>
          /\ counters'.retried = counters.retried + 1
          /\ counters'.failed = counters.failed
          /\ \E w \in Workers : Schedules(w) /\ txn'[w].status = "pending"
    /\ \A w \in Workers :
          /\ (pc[w] = "h_count" /\ pc'[w] = "h_commit") =>
                counters'.failed = counters.failed + 1
          /\ Schedules(w) =>
                (counters'.retried = counters.retried + 1
                    <=> txn'[w].status = "pending")
          /\ Finishes(w) => /\ counters'.failed = counters.failed
                            /\ counters'.retried = counters.retried

(* what holds of the two counters: every handled exception adds one to
   failed, and one to retried exactly when it schedules a retry; no other
   step changes them; retried exceeds failed by at most the number of
   handlers that are between their two increments *)
C19_Accounting ==
    /\ [](C19_Counts /\ counters.retried <= counters.failed + Cardinality(Counting))
    /\ [][C19_Step]_vars

(* C19: in the worker loop every handled exception adds one to failed, and
   one to retried if and only if a retry is scheduled, no other worker path
   changes the two counters, a job with max_attempts = k that raises on every
   attempt adds k to failed and k-1 to retried, and in every state
   retried <= failed. *)
C19_FailedAndRetried ==
    /\ [](C19_Counts /\ counters.retried <= counters.failed)
    /\ [][C19_Step]_vars

(* a handler has counted its retry and not yet its failure *)
C19_Between ==
    /\ Counting # {}
    /\ counters.retried = counters.failed + 1

(* the counters as one worker-loop iteration leaves them for this payload *)
WorkerLoopCounters(products) ==
    IF FinalStatus(products) = "done" THEN incr(counters, "processed") ELSE counters

(* the job row as one worker-loop iteration leaves it *)
WorkerLoopRow(r, products) ==
    LET v == validate_products(products)
    IN  IF products = << >> THEN DoneEmptyRow(r)
        ELSE IF v.errors # << >>
        THEN FailedValidationRow(r, v.errors, DiagColumn(ValidationDiag(v.errors)))
        ELSE DoneRow(r, DiagColumn(UpsertDiag(upsert_products(v.valid))))

(* the diagnostics records as one worker-loop iteration leaves them *)
WorkerLoopDiags(j, products) ==
    LET v == validate_products(products)
    IN  IF products = << >> THEN diags
        ELSE IF v.errors # << >> THEN DiagsAfter(j, ValidationDiag(v.errors))
        ELSE DiagsAfter(j, UpsertDiag(upsert_products(v.valid)))

(* C20: when process_next_job_once finishes a claimed job without an
   exception (empty payload, validation failure, successful upsert) it leaves
   the job row, the diagnostics records and the metrics counters as one
   worker-loop iteration would, the processed counter incremented on the done
   paths included. *)
C20_Step(s) ==
    Finishes(s) =>
        LET j        == claimed[s].jid
            products == claimed[s].products
        IN  /\ jobs' = [jobs EXCEPT ![j] = WorkerLoopRow(jobs[j], products)]
            /\ diags' = WorkerLoopDiags(j, products)
            /\ counters' = WorkerLoopCounters(products)

C20_SyncLikeWorker == [][\A s \in Syncs : C20_Step(s)]_vars

(* the same without the counters *)
C20_RowsAndDiags ==
    [][\A s \in Syncs :
          Finishes(s) =>
              /\ jobs' = [jobs EXCEPT ![claimed[s].jid] =
                             WorkerLoopRow(jobs[claimed[s].jid], claimed[s].products)]
              /\ diags' = WorkerLoopDiags(claimed[s].jid, claimed[s].products)]_vars

(* process_next_job_once leaves its exception handler / ends a call in which
   it had claimed a job *)
LeavesHandler(s) == pc[s] = "handler" /\ pc'[s] # "handler"
SyncEnds(s) == pc[s] \in {"proc", "handler"} /\ pc'[s] = "idle"

(* the handler of process_next_job_once completed: failed with the error
   text, next_run and attempts as they were, and the result reports it *)
SyncFailed(s) ==
    LET j == claimed[s].jid
    IN  /\ jobs'[j].status = "failed"
        /\ jobs'[j].error = ErrorText
        /\ jobs'[j].next_run = jobs[j].next_run
        /\ jobs'[j].attempts = jobs[j].attempts
        /\ result'[s] = [status |-> "failed", job_id |-> j]

(* the call ends with a result whose status is the persisted one *)
SyncReported(s) ==
    /\ result'[s].status \in {"done", "failed"}
    /\ result'[s].job_id = claimed[s].jid
    /\ jobs'[claimed[s].jid].status = result'[s].status

(* C21: when processing raises inside process_next_job_once the claimed job is
   set to failed with the error text, whatever its attempts and max_attempts,
   with next_run unchanged and no retry scheduled; a call that claimed a job
   ends with a result whose status (done or failed) is the job's persisted
   status, so the job is never left pending or in_progress by the call. *)
C21_SyncFailsWithoutRetry ==
    [][\A s \in Syncs : /\ LeavesHandler(s) => SyncFailed(s)
                        /\ SyncEnds(s) => SyncReported(s)]_vars

(* the same for the calls whose handler is not cut short by a storage error *)
C21_WhenHandlerCompletes ==
    [][\A s \in Syncs :
          result'[s].status # "raised" =>
              /\ LeavesHandler(s) => SyncFailed(s)
              /\ SyncEnds(s) => SyncReported(s)]_vars

(* the handler completed for a job that had attempts left *)
C21_FailedEarly ==
    \E j \in JobIds :
        /\ result["s1"] = [status |-> "failed", job_id |-> j]
        /\ jobs[j].status = "failed"
        /\ jobs[j].error = ErrorText
        /\ jobs[j].attempts < Budget(j)

(* a step of a process_next_job_once call up to the return of its claim *)
InCall(s) == pc[s] \in {"idle", "begin", "select"} /\ pc'[s] # pc[s]

(* C22: while no job is eligible, every step of a process_next_job_once call,
   from its entry to its return, leaves job rows, diagnostics records, the
   catalog and the metrics counters unchanged, and the call that reaches its
   SELECT returns None without a claim; this holds for every call from every
   reachable state, so for any number of repeated calls.  (A call whose BEGIN
   IMMEDIATE meets a storage error raises instead, changing nothing.) *)
C22_Step(s) ==
    (InCall(s) /\ ReadyRows = {}) =>
        /\ jobs' = jobs /\ diags' = diags /\ counters' = counters
        /\ catalog' = catalog
        /\ pc[s] = "idle" => pc'[s] = "begin"
        /\ pc[s] = "begin" =>
              \/ pc'[s] = "select"
              \/ pc'[s] = "idle" /\ result'[s] = [status |-> "raised"]
                                 /\ lock # NoProc
        /\ pc[s] = "select" =>
              /\ pc'[s] = "idle"
              /\ result'[s] = [status |-> "None"]
              /\ claimed'[s] = NoClaim
              /\ lock' = NoProc

C22_NothingEligibleNothingChanges == [][\A s \in Syncs : C22_Step(s)]_vars

(* C22 witness: a call has returned None on a table that holds a job in
   every status, the pending one waiting for its next_run, and every row is
   as it was stored *)
C22_Witness ==
    /\ pc["s1"] = "idle"
    /\ result["s1"] = [status |-> "None"]
    /\ ReadyRows = {}
    /\ Len(jobs) = 2
    /\ jobs[1].status = "pending" /\ jobs[1].next_run > 0
    /\ jobs[2].status = "failed"
    /\ counters = [enqueued |-> 2, processed |-> 0, failed |-> 0, retried |-> 0]

RECURSIVE AppliedTo(_, _)
AppliedTo(q, name) ==
    IF q = << >> THEN 0
    ELSE (IF Head(q).name = name THEN Head(q).n ELSE 0) + AppliedTo(Tail(q), name)

(* the sum of the n of the completed incr(name, n) calls of all threads *)
TotalApplied(name) ==
    AppliedTo(mthreads["t1"].applied \o mthreads["t2"].applied
              \o mthreads["t3"].applied, name)

MetricsQuiet == \A t \in MetricThreads : mthreads[t].pc = "idle"

C23_NoLostIncrement ==
    /\ DOMAIN counters = MetricNames
    /\ \A name \in MetricNames :
          /\ MetricsQuiet => counters[name] = StartCounters[name] + TotalApplied(name)
          /\ counters[name] >= StartCounters[name] + TotalApplied(name)
    /\ Cardinality({t \in MetricThreads :
                       mthreads[t].pc \in {"locked", "read"}}) <= 1

C23_Step(t) ==
    /\ Len(mthreads'[t].seen) # Len(mthreads[t].seen) =>
          /\ Len(mthreads'[t].seen) = Len(mthreads[t].seen) + 1
          /\ ReadDict(mthreads'[t].seen[Len(mthreads'[t].seen)], counters') = counters
          /\ counters' = counters
    /\ \A i \in 1..Len(mthreads[t].seen) :
          ReadDict(mthreads'[t].seen[i], counters')
             = ReadDict(mthreads[t].seen[i], counters)

(* C23: for every interleaving of the statements of concurrent incr(name, n)
   and get_metrics() calls no increment is lost: once all calls have returned
   every counter is its start value plus the sum of the n applied to it (and
   never more than one thread is inside the locked section); every
   get_metrics result holds all four counters as they were at the moment of
   the copy, and no later step changes what a result holds. *)
C23_ThreadSafeCounters ==
    /\ []C23_NoLostIncrement
    /\ [][\A t \in MetricThreads : C23_Step(t)]_vars

(* C23 witness: all calls have returned; two threads added 2 and 1 to failed
   while the third had read the counters twice, before and between them: its
   copies still hold the old values *)
C23_Witness ==
    /\ MetricsQuiet
    /\ counters.failed = StartCounters.failed + 3
    /\ Len(mthreads["t3"].seen) = 2
    /\ ReadDict(mthreads["t3"].seen[1], counters).failed = StartCounters.failed
    /\ ReadDict(mthreads["t3"].seen[2], counters).failed = StartCounters.failed + 2
    /\ TotalApplied("failed") = 3

-----------------------------------------------------------------------------
(* Starting and stopping the background worker.  events is the sequence of
   threading.Event objects created so far (TRUE = set), stop_event the index
   of the one the module global _stop_event refers to (0 = None).  The k-th
   thread started is the k-th worker and was started together with the k-th
   event. *)
WorkerOrder == <<"w1", "w2">>

EventOf(w) == CHOOSE k \in 1..Len(WorkerOrder) : WorkerOrder[k] = w

Started(w) == pc[w] # "off"

Running(w) == pc[w] \notin {"off", "stopped"}

(* stop_worker() was called after thread w was started and before another
   start replaced the event: the event created with w is set *)
StopRequested(w) == Started(w) /\ EventOf(w) <= Len(events) /\ events[EventOf(w)]

(* start_worker: returns the current event when it is not set; otherwise a new
   event replaces the global and a new daemon thread enters worker_loop *)
start_worker ==
    /\ ~(stop_event # 0 /\ ~events[stop_event])
    /\ Len(events) < Len(WorkerOrder)
    /\ LET w == WorkerOrder[Len(events) + 1]
       IN  /\ pc[w] = "off"
           /\ pc' = [pc EXCEPT ![w] = "begin"]
    /\ events' = Append(events, FALSE)
    /\ stop_event' = Len(events) + 1
    /\ UNCHANGED <<jobs, diags, catalog, enq, counters, lock, claimed, row, txn, result, hist, requeues>>
    /\ UNCHANGED <<metrics_vars, side_vars>>

(* stop_worker: sets the event the global refers to, if there is one *)
stop_worker ==
    /\ stop_event # 0
    /\ events' = [events EXCEPT ![stop_event] = TRUE]
    /\ UNCHANGED <<queue_vars, metrics_vars, stop_event, side_vars>>

(* the break at the top of the loop *)
WorkerExit(w) ==
    /\ w \in Workers
    /\ pc[w] = "begin"
    /\ StopSeen
    /\ pc' = [pc EXCEPT ![w] = "stopped"]
    /\ UNCHANGED <<jobs, diags, catalog, enq, counters, lock, claimed, row, txn, result, hist, requeues>>
    /\ UNCHANGED <<metrics_vars, thread_vars, side_vars>>

StopRows == {FreshRow(1), FreshRow(2)}

StopInit ==
    /\ jobs \in {<<r>> : r \in StopRows} \cup {<<r, FreshRow(2)>> : r \in StopRows}
    /\ diags = << >>
    /\ catalog = << >>
    /\ enq = [e \in Producers |-> NoCall]
    /\ counters = [enqueued |-> Len(jobs), processed |-> 0, failed |-> 0, retried |-> 0]
    /\ lock = NoProc
    /\ pc = [p \in Procs |-> IF p \in Workers THEN "off" ELSE "idle"]
    /\ claimed = [p \in Procs |-> NoClaim]
    /\ row = [p \in Procs |-> NoRow]
    /\ txn = [p \in Procs |-> NoTxn]
    /\ result = [p \in Procs |-> NoResult]
    /\ hist = [j \in 1..Len(jobs) |-> NewHist]
    /\ requeues = 0
    /\ mlock = NoProc
    /\ mthreads = [t \in MetricThreads |-> NoMetricCall]
    /\ stop_event = 0
    /\ events = << >>
    /\ SideIdle

StopNext ==
    \/ start_worker
    \/ stop_worker
    \/ \E w \in Workers :
          \/ WorkerExit(w)
          \/ ClaimBegin(w)
          \/ ClaimSelect(w)
          \/ ClaimUpdate(w)
          \/ ClaimError(w)
          \/ WorkerSleep(w)
          \/ ProcFinish(w)
          \/ ProcRaise(w)
          \/ HandlerSelect(w)
          \/ HandlerUpdate(w)
          \/ HandlerCount(w)
          \/ HandlerCommit(w)
          \/ HandlerError(w)
    \/ Tick

SpecStop == StopInit /\ [][StopNext]_vars

(* the threads of SpecStop under fair scheduling *)
LiveStop ==
    /\ SpecStop
    /\ \A w \in Workers : WorkerFair(w) /\ WF_vars(WorkerExit(w)) /\ SF_vars(ProcFinish(w))
    /\ WF_vars(Tick)

(* C24: whatever start_worker and stop_worker calls are made, once stop_worker
   has been called for a running worker thread the thread eventually
   terminates: it finishes its cycle, sees the stop at the top of the next
   iteration and leaves the loop. *)
C24_StopTerminatesWorker ==
    \A w \in Workers : [](StopRequested(w) => <>(pc[w] = "stopped"))

(* C24, the part that holds: a thread leaves the loop only at the top of an
   iteration, holding no job, and only when a stop has been signalled *)
C24_ExitOnlyOnStop ==
    \A w \in Workers : pc[w] = "stopped" => /\ \E k \in 1..Len(events) : events[k]
                                            /\ claimed[w] = NoClaim

(* C24, the part that holds: while the event the global refers to stays set,
   every running thread terminates *)
C24_StopsWhileEventSet ==
    \A w \in Workers : [](Running(w) /\ StopSeen => <>(pc[w] = "stopped" \/ ~StopSeen))

(* start, stop, start: the first thread runs on although its stop was called *)
C24_Restarted ==
    /\ Len(events) = 2
    /\ events[1] /\ ~events[2]
    /\ Running("w1") /\ Running("w2")

(* the connect or the claim of worker w is about to raise: the write lock
   stays with another connection for the whole busy timeout *)
ClaimRaises(w) == pc[w] = "begin" /\ ~StopSeen /\ LockedByOther(w)

C25_Step(w) ==
    /\ (ClaimRaises(w) /\ pc'[w] # pc[w]) =>
          /\ pc'[w] = "sleep"
          /\ jobs' = jobs /\ diags' = diags /\ counters' = counters
          /\ claimed'[w] = NoClaim
    /\ (pc[w] = "sleep" /\ pc'[w] # pc[w]) => pc'[w] = "begin" /\ jobs' = jobs

(* C25: an exception of the worker loop outside the per-job processing (the
   connect or the claim raises) never ends the loop: the iteration changes no
   job row, the thread sleeps one poll interval and then polls again. *)
C25_OuterExceptionKeepsLooping ==
    /\ [][\A w \in Workers : C25_Step(w)]_vars
    /\ \A w \in Workers : [](pc[w] = "sleep" => <>(pc[w] = "begin"))

(* w1 sleeps after its claim raised: no job was claimed yet and every stored
   job is ready, so its SELECT cannot have come back empty *)
C25_Witness ==
    /\ pc["w1"] = "sleep"
    /\ lock = "w2"
    /\ \A j \in JobIds : hist[j].claims = 0 /\ Eligible(j)

-----------------------------------------------------------------------------
(* C26: in every reachable state every failed job has attempts >=
   max_attempts and every pending job has attempts < max_attempts, so that
   failed together with attempts >= max_attempts marks exactly the jobs that
   will not be processed again. *)
C26_FailedIffExhausted ==
    \A j \in JobIds :
        /\ jobs[j].status = "failed" => jobs[j].attempts >= Budget(j)
        /\ jobs[j].status = "pending" => jobs[j].attempts < Budget(j)

C26_PendingBelowBudget ==
    \A j \in JobIds : jobs[j].status = "pending" => jobs[j].attempts < Budget(j)

(* the exception handler of worker w decides: failed or a retry *)
C26_Step(w) ==
    (pc[w] = "h_update" /\ pc'[w] = "h_count") =>
        /\ txn'[w].status = "failed" => row[w].attempts >= ReportedMax(row[w].max_attempts)
        /\ txn'[w].status = "pending" => row[w].attempts < ReportedMax(row[w].max_attempts)

(* C26 as the code has it: the exception handler of the worker loop fails a
   job only when the attempts it read have reached max_attempts and puts it
   back in pending only when they are below max_attempts; a job failed by
   validation or by process_next_job_once may have fewer attempts. *)
C26_FailedByHandlerIsExhausted == [][\A w \in Workers : C26_Step(w)]_vars

(* one job failed by the handler with its budget used up, next to a job that
   failed with attempts to spare *)
C26_Witness ==
    \E j, k \in JobIds :
        /\ Exhausted(j) /\ jobs[j].error = ErrorText
        /\ counters.failed = Budget(j) /\ counters.retried = Budget(j) - 1
        /\ jobs[k].status = "failed" /\ jobs[k].attempts < Budget(k)

-----------------------------------------------------------------------------
(* C27: in every reachable state processed_at is set only on a done job: no
   pending, in_progress or failed job has processed_at set, whatever claims,
   finalisations, retries and requeues led there. *)
C27_ProcessedAtOnlyWhenDone ==
    \A j \in JobIds : jobs[j].processed_at # Null => jobs[j].status = "done"

(* C27, the part that holds: only the finalisation that writes done sets
   processed_at, and no step clears it *)
C27_Step(j) ==
    jobs'[j].processed_at # jobs[j].processed_at =>
        jobs[j].processed_at = Null /\ jobs'[j].status = "done"

C27_SetOnlyByDone == [][\A j \in JobIds : C27_Step(j)]_vars

-----------------------------------------------------------------------------
(* A stored job whose max_attempts column is NULL and whose processing raises
   on every attempt, polled by the worker threads while time passes *)
UnsetInit ==
    /\ jobs = << FreshRow(Null) >>
    /\ diags = << >>
    /\ counters = [enqueued |-> 1, processed |-> 0, failed |-> 0, retried |-> 0]
    /\ lock = NoProc
    /\ pc = [p \in Procs |-> IF p \in Workers THEN "begin" ELSE "idle"]
    /\ claimed = [p \in Procs |-> NoClaim]
    /\ row = [p \in Procs |-> NoRow]
    /\ txn = [p \in Procs |-> NoTxn]
    /\ result = [p \in Syncs |-> NoResult]
    /\ hist = << NewHist >>
    /\ requeues = 0
    /\ catalog = << >>
    /\ enq = [e \in Producers |-> NoCall]
    /\ mlock = NoProc
    /\ mthreads = [t \in MetricThreads |-> NoMetricCall]
    /\ stop_event = 0
    /\ events = << >>
    /\ SideIdle

UnsetNext ==
    \/ \E w \in Workers : ClaimBegin(w)
    \/ \E w \in Workers : ClaimSelect(w)
    \/ \E w \in Workers : ClaimUpdate(w)
    \/ \E w \in Workers : ClaimError(w)
    \/ \E w \in Workers : WorkerSleep(w)
    \/ \E w \in Workers : ProcRaise(w)
    \/ \E w \in Workers : HandlerSelect(w)
    \/ \E w \in Workers : HandlerUpdate(w)
    \/ \E w \in Workers : HandlerCount(w)
    \/ \E w \in Workers : HandlerCommit(w)
    \/ \E w \in Workers : HandlerError(w)
    \/ Tick

SpecUnset == UnsetInit /\ [][UnsetNext]_vars

C28_State ==
    \A j \in JobIds :
        /\ jobs[j].max_attempts = Null
        /\ jobs[j].attempts = hist[j].claims
        /\ jobs[j].status = "pending" => jobs[j].attempts < 5
        /\ jobs[j].status = "failed" => jobs[j].attempts = 5
        /\ \A w \in Workers : claimed[w] # NoClaim => claimed[w].max_attempts = 5

C28_Step(w) ==
    /\ (pc[w] = "h_update" /\ pc'[w] = "h_count") =>
          /\ row[w].max_attempts = Null
          /\ txn'[w].status = IF row[w].attempts < 5 THEN "pending" ELSE "failed"
    /\ \A j \in JobIds : jobs[j].status = "failed" => jobs'[j] = jobs[j]

(* C28: a job whose max_attempts is null is handled as if max_attempts were 5,
   by the claim result and by the retry decision: its failures are retried
   until the 5th claim has failed, then it is failed and stays failed. *)
C28_UnsetMeansFive ==
    /\ [](C28_State)
    /\ [][\A w \in Workers : C28_Step(w)]_vars

(* the job after its fifth failed claim: four retries, five failures counted *)
C28_Witness ==
    /\ jobs[1].max_attempts = Null
    /\ jobs[1].status = "failed"
    /\ hist[1].claims = 5
    /\ counters.retried = 4 /\ counters.failed = 5

-----------------------------------------------------------------------------
(* Every operation of the queue on stored jobs that carry a fingerprint:
   the behaviours of Spec started on a table of one or two rows *)
KeptRows == << NewJob(1, <<"ok">>, [sha256 |-> "f1"], 2),
               NewJob(1, <<"ok", "bad">>, NullText, 2) >>

KeepInit ==
    /\ jobs \in {SubSeq(KeptRows, 1, n) : n \in 1..Len(KeptRows)}
    /\ diags = << >>
    /\ counters = [enqueued |-> Len(jobs), processed |-> 0, failed |-> 0, retried |-> 0]
    /\ lock = NoProc
    /\ pc = [p \in Procs |-> IF p = "w1" THEN "begin"
                            ELSE IF p \in Workers THEN "off" ELSE "idle"]
    /\ claimed = [p \in Procs |-> NoClaim]
    /\ row = [p \in Procs |-> NoRow]
    /\ txn = [p \in Procs |-> NoTxn]
    /\ result = [p \in Syncs |-> NoResult]
    /\ hist = [j \in 1..Len(jobs) |-> NewHist]
    /\ requeues = 0
    /\ catalog = << >>
    /\ enq = [e \in Producers |-> NoCall]
    /\ mlock = NoProc
    /\ mthreads = [t \in MetricThreads |-> NoMetricCall]
    /\ stop_event = 0
    /\ events = << >>
    /\ SideIdle

SpecKeep == KeepInit /\ [][Next]_vars

C29_Step(j) ==
    /\ j \in 1..Len(jobs')
    /\ jobs'[j].partner_id = jobs[j].partner_id
    /\ jobs'[j].payload = jobs[j].payload
    /\ jobs'[j].feed_hash = jobs[j].feed_hash

(* C29: no operation changes the id, the submitter, the payload or the
   feed_hash of an existing job, and none removes a row: the row an id was
   given to at enqueue keeps that id and its payload in every later state. *)
C29_RowsKeepIdentity == [][\A j \in JobIds : C29_Step(j)]_vars

(* the stored job after two claims, a requeue between them, a retry scheduled
   by the handler and its finalisation: one attempt is left on the row because
   the requeue reset the first *)
C29_Witness ==
    /\ Len(jobs) = 1
    /\ jobs[1].status = "done"
    /\ jobs[1].attempts = 1
    /\ jobs[1].error = ErrorText
    /\ requeues = 1
    /\ counters.retried = 1
    /\ jobs[1].payload = KeptRows[1].payload
    /\ jobs[1].feed_hash = KeptRows[1].feed_hash

-----------------------------------------------------------------------------
(* One worker thread running on one stored job; once the job has failed, its
   partner or an admin requeues it (POST /partner/jobs/<id>/requeue) *)
RequeueRows == {FreshRow(1), FreshRow(2), NewJob(1, <<"bad">>, NullText, 2)}

RequeueInit ==
    /\ jobs \in {<<r>> : r \in RequeueRows}
    /\ diags = << >>
    /\ counters = [enqueued |-> Len(jobs), processed |-> 0, failed |-> 0, retried |-> 0]
    /\ lock = NoProc
    /\ pc = [p \in Procs |-> IF p = "w1" THEN "begin"
                            ELSE IF p \in Workers THEN "off" ELSE "idle"]
    /\ claimed = [p \in Procs |-> NoClaim]
    /\ row = [p \in Procs |-> NoRow]
    /\ txn = [p \in Procs |-> NoTxn]
    /\ result = [p \in Syncs |-> NoResult]
    /\ hist = [j \in 1..Len(jobs) |-> NewHist]
    /\ requeues = 0
    /\ catalog = << >>
    /\ enq = [e \in Producers |-> NoCall]
    /\ mlock = NoProc
    /\ mthreads = [t \in MetricThreads |-> NoMetricCall]
    /\ stop_event = 0
    /\ events = << >>
    /\ SideIdle

RequeueFailed == \E j \in JobIds : jobs[j].status = "failed" /\ partner_job_requeue(j)

RequeueNext ==
    \/ RequeueFailed
    \/ \E w \in Workers : ClaimBegin(w)
    \/ \E w \in Workers : ClaimSelect(w)
    \/ \E w \in Workers : ClaimUpdate(w)
    \/ \E w \in Workers : WorkerSleep(w)
    \/ \E w \in Workers : ProcFinish(w)
    \/ \E w \in Workers : ProcRaise(w)
    \/ \E w \in Workers : HandlerSelect(w)
    \/ \E w \in Workers : HandlerUpdate(w)
    \/ \E w \in Workers : HandlerCount(w)
    \/ \E w \in Workers : HandlerCommit(w)
    \/ Tick

SpecRequeue == RequeueInit /\ [][RequeueNext]_vars

(* the running worker is scheduled fairly and time passes *)
LiveRequeue ==
    /\ SpecRequeue
    /\ WorkerFair("w1")
    /\ WF_vars(ProcFinish("w1"))
    /\ WF_vars(Tick)

C30_Step(j) ==
    (requeues' # requeues /\ jobs[j].status = "failed") =>
        /\ jobs'[j].status = "pending"
        /\ jobs'[j].next_run = Null
        /\ jobs'[j].attempts = 0
        /\ jobs'[j].error = NullText

(* the job was requeued and has since been claimed again and finalised *)
C30_ProcessedAgain(j) ==
    /\ j \in JobIds
    /\ requeues > 0
    /\ hist[j].claims > 0
    /\ jobs[j].status \in {"done", "failed"}

(* C30: requeueing a failed job sets it to pending with next_run null,
   attempts 0 and error null; with a worker running the job is then claimed
   and processed again and eventually is failed or done. *)
C30_RequeuedRunsAgain ==
    /\ [][\A j \in JobIds : C30_Step(j)]_vars
    /\ \A j \in 1..MaxJobs : [](j \in JobIds /\ requeues > 0 => <>C30_ProcessedAgain(j))

(* a job that used up its attempts, was requeued, and finished on its first
   new attempt *)
C30_Witness ==
    /\ requeues = 1
    /\ counters.failed >= 1
    /\ jobs[1].status = "done"
    /\ jobs[1].attempts = 1
    /\ hist[1].claims = 1

-----------------------------------------------------------------------------
(* dao.py: SalesRepo.checkout_transaction, called once on each of several
   connections for a cart with one line of the one product (the cart of
   app.py is a dict keyed by product id).  The product is active. *)

Quantities == 0..2
PayMethods == {"CARD", "DECLINE_TEST"}

(* payment.process: (status, ref) *)
payment_process(method) == IF method = "DECLINE_TEST" THEN "DECLINED" ELSE "APPROVED"

(* items = [(pid, qty) for pid, qty in cart if qty > 0] *)
CartItems(qty) == IF qty > 0 THEN <<qty>> ELSE << >>

RaisedCheckout(c, message) == [c EXCEPT !.pc = "raised", !.error = message]

(* the call up to the payment: empty cart and declined payment raise *)
CheckoutCall(b) ==
    /\ buyers[b].pc = "idle"
    /\ \E qty \in Quantities, method \in PayMethods :
          LET c == [pc |-> "begin", qty |-> qty, method |-> method,
                    error |-> "", sale_id |-> 0]
          IN  buyers' = [buyers EXCEPT ![b] =
                IF CartItems(qty) = << >> THEN RaisedCheckout(c, "Cart is empty")
                ELSE IF payment_process(method) # "APPROVED"
                     THEN RaisedCheckout(c, "Payment declined")
                     ELSE c]
    /\ UNCHANGED <<product, sales, slock>>
    /\ UNCHANGED <<queue_vars, metrics_vars, thread_vars, breaker_vars, upload_vars>>

(* variant: a deferred BEGIN, which takes no lock *)
transaction_deferred(b) == slock' = slock

(* transaction(conn): conn.execute("BEGIN IMMEDIATE") takes the write lock *)
transaction(b) == slock = NoProc /\ slock' = b

CheckoutBegin(b) ==
    /\ buyers[b].pc = "begin"
    /\ transaction(b)
    /\ buyers' = [buyers EXCEPT ![b].pc = "check"]
    /\ UNCHANGED <<product, sales>>
    /\ UNCHANGED <<queue_vars, metrics_vars, thread_vars, breaker_vars, upload_vars>>

(* BEGIN IMMEDIATE waited the whole busy timeout: sqlite3.OperationalError *)
CheckoutLocked(b) ==
    /\ buyers[b].pc = "begin"
    /\ slock # NoProc /\ slock # b
    /\ buyers' = [buyers EXCEPT ![b] = RaisedCheckout(@, "database is locked")]
    /\ UNCHANGED <<product, sales, slock>>
    /\ UNCHANGED <<queue_vars, metrics_vars, thread_vars, breaker_vars, upload_vars>>

(* _check_stock / AProductRepo.check_stock: stock >= qty *)
check_stock(qty) == product.stock >= qty

(* releasing the lock at commit or rollback, if this connection holds it *)
Released(b) == IF slock = b THEN NoProc ELSE slock

(* the double check under the transaction; when it fails the context manager
   rolls back and re-raises *)
CheckoutCheck(b) ==
    /\ buyers[b].pc = "check"
    /\ IF check_stock(buyers[b].qty)
       THEN /\ buyers' = [buyers EXCEPT ![b].pc = "write"]
            /\ slock' = slock
       ELSE /\ buyers' = [buyers EXCEPT ![b] =
                             RaisedCheckout(@, "Insufficient stock at commit time")]
            /\ slock' = Released(b)
    /\ UNCHANGED <<product, sales>>
    /\ UNCHANGED <<queue_vars, metrics_vars, thread_vars, breaker_vars, upload_vars>>

(* INSERT sale, INSERT sale_item, UPDATE product SET stock = stock - ?,
   INSERT payment, commit; the call returns the sale id *)
CheckoutWrite(b) ==
    /\ buyers[b].pc = "write"
    /\ sales' = Append(sales, [buyer |-> b, quantity |-> buyers[b].qty])
    /\ product' = [product EXCEPT !.stock = @ - buyers[b].qty]
    /\ buyers' = [buyers EXCEPT ![b].pc = "returned", ![b].sale_id = Len(sales) + 1]
    /\ slock' = Released(b)
    /\ UNCHANGED <<queue_vars, metrics_vars, thread_vars, breaker_vars, upload_vars>>

ShopInit ==
    /\ jobs = << >>
    /\ diags = << >>
    /\ counters = [enqueued |-> 0, processed |-> 0, failed |-> 0, retried |-> 0]
    /\ lock = NoProc
    /\ pc = [p \in Procs |-> IF p \in Workers THEN "off" ELSE "idle"]
    /\ claimed = [p \in Procs |-> NoClaim]
    /\ row = [p \in Procs |-> NoRow]
    /\ txn = [p \in Procs |-> NoTxn]
    /\ result = [p \in Syncs |-> NoResult]
    /\ hist = << >>
    /\ requeues = 0
    /\ catalog = << >>
    /\ enq = [e \in Producers |-> NoCall]
    /\ mlock = NoProc
    /\ mthreads = [t \in MetricThreads |-> NoMetricCall]
    /\ stop_event = 0
    /\ events = << >>
    /\ \E n \in 0..MaxStock : product = [stock |-> n, seeded |-> n]
    /\ sales = << >>
    /\ buyers = [b \in Buyers |-> NoCheckout]
    /\ slock = NoProc
    /\ BreakerIdle
    /\ UploadIdle

ShopNext ==
    \E b \in Buyers :
        \/ CheckoutCall(b)
        \/ CheckoutBegin(b)
        \/ CheckoutLocked(b)
        \/ CheckoutCheck(b)
        \/ CheckoutWrite(b)

SpecShop == ShopInit /\ [][ShopNext]_vars

RECURSIVE UnitsIn(_, _)
UnitsIn(rows, n) == IF n = 0 THEN 0 ELSE rows[n].quantity + UnitsIn(rows, n - 1)

UnitsSold == UnitsIn(sales, Len(sales))

Callers == {b \in Buyers : buyers[b].pc # "idle"}
ReturnedBuyers == {b \in Buyers : buyers[b].pc = "returned"}
RaisedBuyers == {b \in Buyers : buyers[b].pc = "raised"}

(* two connections raced for the last unit and both calls are over *)
LastUnitRace ==
    /\ product.seeded = 1
    /\ Cardinality(Callers) = 2
    /\ \A b \in Callers : /\ buyers[b].qty = 1 /\ buyers[b].method = "CARD"
                          /\ buyers[b].pc \in {"returned", "raised"}

(* C31: however concurrent checkout_transaction calls on separate connections
   interleave, the stock never is negative and the units sold never exceed
   the stock there was; when two calls race for the last unit, exactly one
   returns a sale id, the other raises, one sale row exists and stock is 0. *)
C31_NoOversell ==
    /\ product.stock >= 0
    /\ UnitsSold <= product.seeded
    /\ product.stock = product.seeded - UnitsSold
    /\ Len(sales) = Cardinality(ReturnedBuyers)
    /\ \A b \in ReturnedBuyers : buyers[b].sale_id \in 1..Len(sales)
                                 /\ sales[buyers[b].sale_id].buyer = b
    /\ LastUnitRace =>
          /\ Cardinality(ReturnedBuyers) = 1
          /\ Cardinality(RaisedBuyers) = 1
          /\ Len(sales) = 1
          /\ product.stock = 0

(* the race is over and the loser found the stock gone under its own
   transaction *)
C31_Witness ==
    /\ LastUnitRace
    /\ \E b \in RaisedBuyers : buyers[b].error = "Insufficient stock at commit time"

-----------------------------------------------------------------------------
(* flash_sales/circuit_breaker.py: one CircuitBreaker object called from
   several threads.  The gate of call() and the bodies of _on_success and
   _on_failure run under self.lock, each in one step; the wrapped function
   runs between them, outside the lock. *)

(* variant: the reset is attempted whatever time has passed *)
should_attempt_reset_always(b) == TRUE

(* _should_attempt_reset: elapsed > timedelta(seconds=timeout_seconds) *)
should_attempt_reset(b) ==
    \/ b.last_failure_time = NoFailureTime
    \/ b.last_failure_time > b.timeout_seconds

(* variant: the breaker closes one success late *)
on_success_late(b) ==
    LET c == [b EXCEPT !.failure_count = 0, !.failures_in_row = 0]
    IN  IF c.state = "half_open"
        THEN IF c.success_count + 1 > c.success_threshold
             THEN [c EXCEPT !.state = "closed", !.success_count = 0,
                            !.trial_successes = @ + 1]
             ELSE [c EXCEPT !.success_count = @ + 1, !.trial_successes = @ + 1]
        ELSE c

(* _on_success *)
on_success(b) ==
    LET c == [b EXCEPT !.failure_count = 0, !.failures_in_row = 0]
    IN  IF c.state = "half_open"
        THEN IF c.success_count + 1 >= c.success_threshold
             THEN [c EXCEPT !.state = "closed", !.success_count = 0,
                            !.trial_successes = @ + 1]
             ELSE [c EXCEPT !.success_count = @ + 1, !.trial_successes = @ + 1]
        ELSE c

(* _on_failure *)
on_failure(b) ==
    LET c == [b EXCEPT !.failure_count = @ + 1, !.last_failure_time = 0,
                       !.failures_in_row = @ + 1]
    IN  IF c.failure_count >= c.failure_threshold
        THEN [c EXCEPT !.state = "open"]
        ELSE c

(* call(): the gate under the lock.  An open breaker either turns half_open
   or raises CircuitBreakerOpenError; otherwise the function is invoked. *)
BreakerCall(t) ==
    /\ bcalls[t].pc = "idle"
    /\ bcalls[t].calls < MaxBreakerCalls
    /\ IF breaker.state = "open" /\ ~should_attempt_reset(breaker)
       THEN /\ bcalls' = [bcalls EXCEPT ![t].outcome = "CircuitBreakerOpenError",
                                        ![t].calls = @ + 1]
            /\ breaker' = breaker
       ELSE /\ bcalls' = [bcalls EXCEPT ![t].pc = "func", ![t].outcome = "none",
                                        ![t].calls = @ + 1]
            /\ breaker' = IF breaker.state = "open"
                          THEN [breaker EXCEPT !.state = "half_open",
                                               !.success_count = 0,
                                               !.trial_successes = 0]
                          ELSE breaker
    /\ UNCHANGED <<queue_vars, metrics_vars, thread_vars, shop_vars, upload_vars>>

(* the function returned: _on_success, return result *)
BreakerSuccess(t) ==
    /\ bcalls[t].pc = "func"
    /\ breaker' = on_success(breaker)
    /\ bcalls' = [bcalls EXCEPT ![t].pc = "idle", ![t].outcome = "returned"]
    /\ UNCHANGED <<queue_vars, metrics_vars, thread_vars, shop_vars, upload_vars>>

(* the function raised: _on_failure, raise e *)
BreakerFailure(t) ==
    /\ bcalls[t].pc = "func"
    /\ breaker' = on_failure(breaker)
    /\ bcalls' = [bcalls EXCEPT ![t].pc = "idle", ![t].outcome = "raised"]
    /\ UNCHANGED <<queue_vars, metrics_vars, thread_vars, shop_vars, upload_vars>>

(* reset() *)
breaker_reset ==
    /\ breaker' = [breaker EXCEPT !.state = "closed", !.failure_count = 0,
                                  !.success_count = 0, !.last_failure_time = NoFailureTime,
                                  !.failures_in_row = 0, !.trial_successes = 0]
    /\ UNCHANGED <<queue_vars, metrics_vars, thread_vars, shop_vars, upload_vars, bcalls>>

(* a second passes; what is kept is whether the elapsed time is below, at or
   beyond timeout_seconds *)
BreakerTick ==
    /\ breaker.last_failure_time # NoFailureTime
    /\ breaker.last_failure_time <= breaker.timeout_seconds
    /\ breaker' = [breaker EXCEPT !.last_failure_time = @ + 1]
    /\ UNCHANGED <<queue_vars, metrics_vars, thread_vars, shop_vars, upload_vars, bcalls>>

BreakerInit ==
    /\ jobs = << >>
    /\ diags = << >>
    /\ counters = [enqueued |-> 0, processed |-> 0, failed |-> 0, retried |-> 0]
    /\ lock = NoProc
    /\ pc = [p \in Procs |-> IF p \in Workers THEN "off" ELSE "idle"]
    /\ claimed = [p \in Procs |-> NoClaim]
    /\ row = [p \in Procs |-> NoRow]
    /\ txn = [p \in Procs |-> NoTxn]
    /\ result = [p \in Syncs |-> NoResult]
    /\ hist = << >>
    /\ requeues = 0
    /\ catalog = << >>
    /\ enq = [e \in Producers |-> NoCall]
    /\ mlock = NoProc
    /\ mthreads = [t \in MetricThreads |-> NoMetricCall]
    /\ stop_event = 0
    /\ events = << >>
    /\ ShopIdle
    /\ \E f \in {1, 2}, s \in {1, 2} : breaker = NewBreaker(f, 1, s)
    /\ bcalls = [t \in BreakerThreads |-> NoBreakerCall]
    /\ UploadIdle

BreakerNext ==
    \/ \E t \in BreakerThreads : BreakerCall(t)
    \/ \E t \in BreakerThreads : BreakerSuccess(t)
    \/ \E t \in BreakerThreads : BreakerFailure(t)
    \/ breaker_reset
    \/ BreakerTick

SpecBreaker == BreakerInit /\ [][BreakerNext]_vars

(* some thread is at the gate of call() / completes a call in this step *)
AtGate(t) == bcalls[t].pc = "idle" /\ bcalls'[t].calls = bcalls[t].calls + 1
Completes(t) == bcalls[t].pc = "func" /\ bcalls'[t].pc = "idle"

(* the breaker is open and no more than timeout_seconds have elapsed since
   the last failure *)
OpenAndWaiting ==
    /\ breaker.state = "open"
    /\ breaker.last_failure_time # NoFailureTime
    /\ breaker.last_failure_time <= breaker.timeout_seconds

C32_Step(t) ==
    /\ (Completes(t) /\ bcalls'[t].outcome = "raised" /\ breaker.state = "closed"
          /\ breaker.failures_in_row + 1 >= breaker.failure_threshold)
         => breaker'.state = "open"
    /\ (AtGate(t) /\ OpenAndWaiting) =>
          /\ bcalls'[t].outcome = "CircuitBreakerOpenError"
          /\ bcalls'[t].pc = "idle"
          /\ breaker' = breaker
    /\ ((AtGate(t) \/ Completes(t)) /\ OpenAndWaiting) => breaker'.state = "open"

(* C32: a closed breaker is open once failure_threshold calls have failed
   with no success in between; while it is open and timeout_seconds have not
   elapsed since the last failure every call raises CircuitBreakerOpenError,
   the function is not invoked and the state stays open. *)
C32_OpensAndRejects ==
    /\ [](breaker.state = "closed" => breaker.failures_in_row < breaker.failure_threshold)
    /\ [][\A t \in BreakerThreads : C32_Step(t)]_vars

(* two failures in a row opened the breaker and a call was turned away *)
C32_Witness ==
    /\ breaker.failure_threshold = 2
    /\ breaker.state = "open"
    /\ breaker.failures_in_row = 2
    /\ \E t \in BreakerThreads : bcalls[t].outcome = "CircuitBreakerOpenError"

(* a successful call completes while the breaker is half_open and brings the
   successes of this trial to success_threshold *)
LastTrialSuccess(t) ==
    /\ Completes(t) /\ bcalls'[t].outcome = "returned"
    /\ breaker.state = "half_open"
    /\ breaker.trial_successes + 1 >= breaker.success_threshold

C33_Closes ==
    /\ [](breaker.state = "half_open" => breaker.trial_successes < breaker.success_threshold)
    /\ [][\A t \in BreakerThreads : LastTrialSuccess(t) => breaker'.state = "closed"]_vars

(* the gate turns the open breaker half_open and invokes the function *)
LetThrough(t) ==
    /\ bcalls'[t].pc = "func"
    /\ breaker'.state = "half_open"
    /\ breaker'.success_count = 0

(* C33: once timeout_seconds have elapsed since the last failure, an open
   breaker lets the next call through in half_open, and after
   success_threshold successful calls in half_open the state is closed. *)
C33_HalfOpenAtTimeout ==
    /\ [][\A t \in BreakerThreads :
            (AtGate(t) /\ breaker.state = "open"
                /\ breaker.last_failure_time >= breaker.timeout_seconds) => LetThrough(t)]_vars
    /\ C33_Closes

(* C33 as the code has it: once more than timeout_seconds have elapsed since
   the last failure, an open breaker lets the next call through in half_open
   (at exactly timeout_seconds the call is still turned away), and after
   success_threshold successful calls in half_open the state is closed. *)
C33_HalfOpenAfterTimeout ==
    /\ [][\A t \in BreakerThreads :
            (AtGate(t) /\ breaker.state = "open"
                /\ breaker.last_failure_time > breaker.timeout_seconds) => LetThrough(t)]_vars
    /\ C33_Closes

(* the breaker opened at the first failure, was let through after the timeout
   and closed at the second success of the trial *)
C33_Witness ==
    /\ breaker.failure_threshold = 1
    /\ breaker.success_threshold = 2
    /\ breaker.state = "closed"
    /\ breaker.last_failure_time > breaker.timeout_seconds
    /\ breaker.trial_successes = 2

-----------------------------------------------------------------------------
(* floor(0.5 * 2^a) and floor(1.5 * 2^a) *)
HalfOf(a) == Pow2(a) \div 2
OneAndHalfOf(a) == (3 * Pow2(a)) \div 2

(* the worker schedules a retry in this step: the attempts value it read, and
   the seconds from now to the next_run it writes *)
C34_Step(w) ==
    (pc[w] = "h_update" /\ pc'[w] = "h_count" /\ txn'[w].status = "pending") =>
        LET a == row[w].attempts
            d == txn'[w].next_run
        IN  /\ a = jobs[claimed[w].jid].attempts
            /\ d \in Nat
            /\ Max(1, HalfOf(a)) <= d
            /\ d <= OneAndHalfOf(a)
            /\ d >= 1
            /\ Max(1, HalfOf(a + 1)) = 2 * Max(1, HalfOf(a))
            /\ OneAndHalfOf(a + 1) = 2 * OneAndHalfOf(a)

(* C34: when the worker schedules a retry of a job whose attempts after the
   claim is a, next_run is the current time plus a whole number of seconds d
   with max(1, floor(0.5 * 2^a)) <= d <= floor(1.5 * 2^a): at least one
   second, in a range that doubles with every further attempt. *)
C34_BackoffRange == [][\A w \in Workers : C34_Step(w)]_vars

(* the longest delay after the fourth failed attempt has been scheduled *)
C34_Witness ==
    \E w \in Workers :
        /\ pc[w] = "h_count"
        /\ row[w].attempts = 4
        /\ txn[w].status = "pending"
        /\ txn[w].next_run = 24

-----------------------------------------------------------------------------
(* C35: in every reachable state every job has 0 <= attempts <= max_attempts
   (5 when max_attempts is unset or 0): the claim never returns a job whose
   attempts already equals max_attempts, so no job is claimed more than
   max_attempts times between two requeues. *)
C35_AttemptsWithinBudget ==
    \A j \in JobIds :
        /\ 0 <= jobs[j].attempts
        /\ jobs[j].attempts <= OrDefault(jobs[j].max_attempts, 5)
        /\ hist[j].claims <= OrDefault(jobs[j].max_attempts, 5)

(* Two worker loops on a job whose processing raises every time, with the
   requeue route called once in between *)
RaceNext ==
    \/ RetryNext
    \/ \E j \in 1..MaxJobs : partner_job_requeue(j)

SpecRace == RetryInit /\ [][RaceNext]_vars

RaceFailedOnlyNext ==
    \/ RetryNext
    \/ RequeueFailed

SpecRaceFailedOnly == RetryInit /\ [][RaceFailedOnlyNext]_vars

-----------------------------------------------------------------------------
(* The diagnostics records over the life of a job: processing with a large
   summary, the job update failing right after the INSERT of the record, the
   retry, and a requeue of the failed job. *)

(* the summary the try body computes for a payload *)
DiagOf(products) ==
    IF validate_products(products).errors # << >>
    THEN ValidationDiag(validate_products(products).errors)
    ELSE UpsertDiag(upsert_products(validate_products(products).valid))

(* worker_loop: the INSERT INTO partner_ingest_diagnostics is executed and the
   UPDATE of the job that follows it raises.  The handler runs on the same
   connection, which holds the write lock since the INSERT: its SELECT reads
   the row, its UPDATE is executed, and its commit will commit the INSERT as
   well. *)
ProcInsertRaise(w) ==
    /\ w \in Workers
    /\ pc[w] = "proc"
    /\ lock = NoProc
    /\ claimed[w].products # << >>
    /\ Offloaded(DiagOf(claimed[w].products))
    /\ diags' = DiagsAfter(claimed[w].jid, DiagOf(claimed[w].products))
    /\ lock' = w
    /\ row' = [row EXCEPT ![w] =
                  [attempts     |-> jobs[claimed[w].jid].attempts,
                   max_attempts |-> jobs[claimed[w].jid].max_attempts]]
    /\ IF RetryAllowed(row'[w].attempts, row'[w].max_attempts)
       THEN /\ \E delay \in DelayRange(row'[w].attempts) :
                  txn' = [txn EXCEPT ![w] =
                             [status |-> "pending", next_run |-> delay]]
            /\ counters' = incr(counters, "retried")
       ELSE /\ txn' = [txn EXCEPT ![w] = [status |-> "failed"]]
            /\ counters' = counters
    /\ pc' = [pc EXCEPT ![w] = "h_count"]
    /\ UNCHANGED <<jobs, catalog, enq, claimed, result, hist, requeues>>
    /\ UNCHANGED <<metrics_vars, thread_vars, side_vars>>

(* process_next_job_once: the same failure; its except writes status='failed'
   and commits, the INSERT included *)
SyncInsertRaise(s) ==
    /\ s \in Syncs
    /\ pc[s] = "proc"
    /\ lock = NoProc
    /\ claimed[s].products # << >>
    /\ Offloaded(DiagOf(claimed[s].products))
    /\ diags' = DiagsAfter(claimed[s].jid, DiagOf(claimed[s].products))
    /\ jobs' = [jobs EXCEPT ![claimed[s].jid] = SyncFailedRow(@)]
    /\ result' = [result EXCEPT ![s] =
                     [status |-> "failed", job_id |-> claimed[s].jid]]
    /\ pc' = [pc EXCEPT ![s] = "idle"]
    /\ claimed' = [claimed EXCEPT ![s] = NoClaim]
    /\ UNCHANGED <<catalog, enq, counters, lock, row, txn, hist, requeues>>
    /\ UNCHANGED <<metrics_vars, thread_vars, side_vars>>

(* payloads with a summary of 2017 characters (64 invalid items), with 30
   items the product table rejects, and a small valid batch *)
DiagPayloads == {Filled(64, << >>), [i \in 1..30 |-> "big"], <<"ok">>}

DiagInit ==
    /\ \E products \in DiagPayloads : jobs = << NewJob(1, products, NullText, 2) >>
    /\ diags = << >>
    /\ counters = [enqueued |-> 1, processed |-> 0, failed |-> 0, retried |-> 0]
    /\ lock = NoProc
    /\ pc = [p \in Procs |-> IF p = "w1" THEN "begin"
                            ELSE IF p \in Workers THEN "off" ELSE "idle"]
    /\ claimed = [p \in Procs |-> NoClaim]
    /\ row = [p \in Procs |-> NoRow]
    /\ txn = [p \in Procs |-> NoTxn]
    /\ result = [p \in Syncs |-> NoResult]
    /\ hist = << NewHist >>
    /\ requeues = 0
    /\ catalog = << >>
    /\ enq = [e \in Producers |-> NoCall]
    /\ mlock = NoProc
    /\ mthreads = [t \in MetricThreads |-> NoMetricCall]
    /\ stop_event = 0
    /\ events = << >>
    /\ SideIdle

DiagNext ==
    \/ \E p \in Procs : ClaimBegin(p)
    \/ \E p \in Procs : ClaimSelect(p)
    \/ \E p \in Procs : ClaimUpdate(p)
    \/ \E p \in Procs : ClaimError(p)
    \/ \E w \in Workers : WorkerSleep(w)
    \/ \E s \in Syncs : SyncCall(s)
    \/ \E p \in Procs : ProcFinish(p)
    \/ \E w \in Workers : ProcInsertRaise(w)
    \/ \E s \in Syncs : SyncInsertRaise(s)
    \/ \E w \in Workers : HandlerCount(w)
    \/ \E w \in Workers : HandlerCommit(w)
    \/ RequeueFailed
    \/ Tick

SpecDiag == DiagInit /\ [][DiagNext]_vars

(* the record the diagnostics column of job j names, 0 when it names none *)
PointerOf(j) ==
    IF jobs[j].diagnostics # NullText
       /\ "errors_link" \in DOMAIN json_loads(jobs[j].diagnostics)
    THEN json_loads(jobs[j].diagnostics).errors_link.diag_id
    ELSE 0

(* C36: every diagnostics record refers to an existing job, every job has at
   most one diagnostics record, and that record is the one the job's
   diagnostics pointer names. *)
C36_OneRecordPerJob ==
    /\ \A d \in DOMAIN diags : diags[d].job_id \in JobIds
    /\ \A j \in JobIds :
          /\ Cardinality(RecordsOf(j)) <= 1
          /\ \A d \in RecordsOf(j) : PointerOf(j) = d

(* what holds of the records: each refers to an existing job, the pointer of
   a job names a record of that job, and a record once written is neither
   changed nor removed *)
C36_RecordsAppendOnly ==
    [][/\ Len(diags') >= Len(diags)
       /\ \A d \in DOMAIN diags : diags'[d] = diags[d]
       /\ \A d \in DOMAIN diags' : diags'[d].job_id \in 1..Len(jobs')
       /\ \A j \in 1..Len(jobs') :
             LET dcol == jobs'[j].diagnostics
             IN  (dcol # NullText /\ "errors_link" \in DOMAIN json_loads(dcol)) =>
                     /\ json_loads(dcol).errors_link.diag_id \in DOMAIN diags'
                     /\ diags'[json_loads(dcol).errors_link.diag_id].job_id = j]_vars

(* a failed job was requeued and processed again: two records for job 1, the
   row naming the second *)
C36_TwoRecords ==
    /\ Len(diags) = 2
    /\ RecordsOf(1) = {1, 2}
    /\ PointerOf(1) = 2
    /\ requeues = 1

-----------------------------------------------------------------------------
(* the threads that run worker_loop *)
RunningWorkers == {w \in Workers : Running(w)}

(* C37: for any sequence of start_worker and stop_worker calls at most one
   worker thread runs the loop at any time: a start_worker that follows a
   stop_worker does not leave the earlier thread running next to the new
   one. *)
C37_SingleWorker == Cardinality(RunningWorkers) <= 1

(* what holds: while the event of the last start is not set, start_worker
   starts no thread and the global keeps naming that event; a thread is only
   started by start_worker *)
C37_NoStartWhileRunning ==
    [][/\ (stop_event # 0 /\ ~events[stop_event]) =>
              /\ stop_event' = stop_event
              /\ Len(events') = Len(events)
              /\ \A w \in Workers : pc[w] = "off" => pc'[w] = "off"
       /\ \A w \in Workers :
              (pc[w] = "off" /\ pc'[w] # "off") => Len(events') = Len(events) + 1]_vars

-----------------------------------------------------------------------------
(* routes.py: POST /partner/ingest.  uploads[r] is the request r: where the
   view function is, the request's key, body and mode, the response it ended
   with, and the ids of the job rows it inserted.  inflight is
   security._inflight. *)

ApiKeys == {"k1", "k2"}

(* request bodies: a valid feed, a feed with an invalid item, and bytes that
   are no JSON document *)
UploadBodies ==
    {[text |-> "json", items |-> <<"ok">>],
     [text |-> "json", items |-> <<"ok", "bad">>],
     [text |-> "garbage"]}

(* request.args.get("async", "1") in ("1", "true", "yes") *)
UploadModes == {"async", "sync"}

(* parse_json_feed: json.loads(payload.decode("utf-8")) raises on a body that
   is no JSON document *)
ParseRaises(payload) == payload.text # "json"
parse_feed(payload) == payload.items

(* hashlib.sha256(payload).hexdigest() *)
FeedHash(payload) == [sha256 |-> payload]

(* SELECT partner_id FROM partner_api_keys WHERE api_key = ? *)
PartnerOfKey(api_key) == 1

Ended(r, status) == [uploads[r] EXCEPT !.pc = "ended", !.response = status]

(* security.release_inflight *)
release_inflight(api_key) == inflight \ {api_key}

(* the request arrives with a valid key: try_acquire_inflight, or the 429 *)
UploadBegin(r) ==
    /\ uploads[r].pc = "idle"
    /\ \E api_key \in ApiKeys, payload \in UploadBodies, mode \in UploadModes :
          LET req == [pc |-> "parse", key |-> api_key, body |-> payload,
                      mode |-> mode, response |-> 0, inserted |-> << >>]
          IN  IF api_key \in inflight
              THEN /\ uploads' = [uploads EXCEPT ![r] =
                                     [req EXCEPT !.pc = "ended", !.response = 429]]
                   /\ inflight' = inflight
              ELSE /\ uploads' = [uploads EXCEPT ![r] = req]
                   /\ inflight' = inflight \cup {api_key}
    /\ UNCHANGED <<queue_vars, metrics_vars, thread_vars, shop_vars, breaker_vars>>

(* products = parse_feed(...): outside every try of the view; an exception
   ends the request with a 500 *)
UploadParse(r) ==
    /\ uploads[r].pc = "parse"
    /\ uploads' = [uploads EXCEPT ![r] =
                      IF ParseRaises(uploads[r].body)
                      THEN Ended(r, 500)
                      ELSE [uploads[r] EXCEPT !.pc = uploads[r].mode]]
    /\ UNCHANGED <<inflight, queue_vars, metrics_vars, thread_vars, shop_vars,
                   breaker_vars>>

(* start_worker(db_path) of the async branch *)
UploadStart(r) ==
    /\ uploads[r].pc = "async"
    /\ IF (stop_event # 0 /\ ~events[stop_event]) \/ Len(events) >= Len(WorkerOrder)
       THEN UNCHANGED <<pc, events, stop_event>>
       ELSE /\ pc' = [pc EXCEPT ![WorkerOrder[Len(events) + 1]] = "begin"]
            /\ events' = Append(events, FALSE)
            /\ stop_event' = Len(events) + 1
    /\ uploads' = [uploads EXCEPT ![r].pc = "enqueue"]
    /\ UNCHANGED <<jobs, diags, counters, lock, claimed, row, txn, result, hist,
                   requeues, catalog, enq>>
    /\ UNCHANGED <<inflight, metrics_vars, shop_vars, breaker_vars>>

(* enqueue_feed_db called from the view: INSERT, commit, incr("enqueued"); it
   raises OperationalError when the database stays locked for all its tries *)
UploadInsert(r) ==
    /\ \E m \in MaxAttemptsValues :
          jobs' = Append(jobs, NewJob(PartnerOfKey(uploads[r].key),
                                      parse_feed(uploads[r].body),
                                      FeedHash(uploads[r].body), m))
    /\ hist' = Append(hist, NewHist)
    /\ counters' = incr(counters, "enqueued")

(* enqueue_feed(partner_id or 0, products + [], feed_hash=feed_hash) and the
   except clauses around it *)
UploadEnqueue(r) ==
    /\ uploads[r].pc = "enqueue"
    /\ IF lock = NoProc
       THEN /\ UploadInsert(r)
            /\ uploads' = [uploads EXCEPT ![r].pc = "jid",
                                          ![r].inserted = Append(@, Len(jobs) + 1)]
            /\ inflight' = inflight
       ELSE /\ UNCHANGED <<jobs, hist, counters>>
            /\ uploads' = [uploads EXCEPT ![r] = Ended(r, 503)]
            /\ inflight' = release_inflight(uploads[r].key)
    /\ UNCHANGED <<diags, lock, pc, claimed, row, txn, result, requeues, catalog, enq>>
    /\ UNCHANGED <<metrics_vars, thread_vars, shop_vars, breaker_vars>>

(* `if _iq.enqueue_feed is enqueue_feed and _iq.enqueue_feed_db:
        jid = _iq.enqueue_feed_db(...)` in a try that swallows every exception;
   then release_inflight and the 202 *)
UploadJobId(r) ==
    /\ uploads[r].pc = "jid"
    /\ IF lock = NoProc
       THEN /\ UploadInsert(r)
            /\ uploads' = [uploads EXCEPT ![r] =
                              [Ended(r, 202) EXCEPT !.inserted = Append(@, Len(jobs) + 1)]]
       ELSE /\ UNCHANGED <<jobs, hist, counters>>
            /\ uploads' = [uploads EXCEPT ![r] = Ended(r, 202)]
    /\ inflight' = release_inflight(uploads[r].key)
    /\ UNCHANGED <<diags, lock, pc, claimed, row, txn, result, requeues, catalog, enq>>
    /\ UNCHANGED <<metrics_vars, thread_vars, shop_vars, breaker_vars>>

(* the synchronous branch: validate_products, the 422, or upsert_products;
   `finally` closes the connection and releases the slot.  The view has no
   return after the upsert. *)
UploadSync(r) ==
    /\ uploads[r].pc = "sync"
    /\ LET v == validate_products(parse_feed(uploads[r].body))
       IN  IF v.errors # << >>
           THEN /\ uploads' = [uploads EXCEPT ![r] = Ended(r, 422)]
                /\ catalog' = catalog
           ELSE IF lock = NoProc
           THEN /\ uploads' = [uploads EXCEPT ![r] = Ended(r, 500)]
                /\ catalog' = CatalogAfter(0, v.valid)
           ELSE /\ uploads' = [uploads EXCEPT ![r] = Ended(r, 500)]
                /\ catalog' = catalog
    /\ inflight' = release_inflight(uploads[r].key)
    /\ UNCHANGED <<jobs, diags, counters, lock, pc, claimed, row, txn, result, hist,
                   requeues, enq>>
    /\ UNCHANGED <<metrics_vars, thread_vars, shop_vars, breaker_vars>>

UploadInit ==
    /\ jobs = << >>
    /\ diags = << >>
    /\ counters = [enqueued |-> 0, processed |-> 0, failed |-> 0, retried |-> 0]
    /\ lock = NoProc
    /\ pc = [p \in Procs |-> IF p \in Workers THEN "off" ELSE "idle"]
    /\ claimed = [p \in Procs |-> NoClaim]
    /\ row = [p \in Procs |-> NoRow]
    /\ txn = [p \in Procs |-> NoTxn]
    /\ result = [p \in Syncs |-> NoResult]
    /\ hist = << >>
    /\ requeues = 0
    /\ catalog = << >>
    /\ enq = [e \in Producers |-> NoCall]
    /\ mlock = NoProc
    /\ mthreads = [t \in MetricThreads |-> NoMetricCall]
    /\ stop_event = 0
    /\ events = << >>
    /\ ShopIdle
    /\ BreakerIdle
    /\ UploadIdle

UploadNext ==
    \/ \E r \in Requests : UploadBegin(r)
    \/ \E r \in Requests : UploadParse(r)
    \/ \E r \in Requests : UploadStart(r)
    \/ \E r \in Requests : UploadEnqueue(r)
    \/ \E r \in Requests : UploadJobId(r)
    \/ \E r \in Requests : UploadSync(r)
    \/ \E w \in Workers : ClaimBegin(w)
    \/ \E w \in Workers : ClaimSelect(w)
    \/ \E w \in Workers : ClaimUpdate(w)
    \/ \E w \in Workers : WorkerSleep(w)
    \/ \E w \in Workers : ProcFinish(w)

SpecUpload == UploadInit /\ [][UploadNext]_vars

(* the requests that ended with 202, and those still in the view function *)
Accepted == {r \in Requests : uploads[r].pc = "ended" /\ uploads[r].response = 202}
InView == {r \in Requests : uploads[r].pc \notin {"idle", "ended"}}

(* the runs of the worker on the rows request r inserted *)
RunsFor(r) ==
    {c \in DOMAIN catalog :
        \E i \in DOMAIN uploads[r].inserted : catalog[c].job_id = uploads[r].inserted[i]}

(* C38: each async upload accepted by POST /partner/ingest (202) inserts
   exactly one job row and increments the enqueued counter by exactly one, so
   the batch is processed once, not twice. *)
C38_OneJobPerUpload ==
    /\ \A r \in Accepted :
          /\ Len(uploads[r].inserted) = 1
          /\ Cardinality(RunsFor(r)) <= 1
    /\ InView = {} => counters.enqueued = Cardinality(Accepted)

(* what holds: an accepted upload has inserted one row or two, all with its
   payload and fingerprint, and the counter follows the rows *)
C38_RowsOfUpload ==
    /\ counters.enqueued = Len(jobs)
    /\ \A r \in Accepted :
          /\ Len(uploads[r].inserted) \in {1, 2}
          /\ \A i \in DOMAIN uploads[r].inserted :
                /\ PayloadOf(uploads[r].inserted[i]) = parse_feed(uploads[r].body)
                /\ jobs[uploads[r].inserted[i]].feed_hash = FeedHash(uploads[r].body)

(* one accepted upload, two rows, both processed by the worker *)
C38_ProcessedTwice ==
    /\ \E r \in Accepted : Len(uploads[r].inserted) = 2 /\ Cardinality(RunsFor(r)) = 2
    /\ Cardinality(Accepted) = 1
    /\ counters.enqueued = 2

(* C39: every in-flight slot acquired for an API key is released by the time
   the request ends, on every path, the exception raised while parsing the
   feed included: a key is in the in-flight set only while a request with
   that key is in the view function, so a later request with the same key is
   never rejected when none is running. *)
C39_SlotReleasedAtEnd ==
    \A api_key \in inflight : \E r \in InView : uploads[r].key = api_key

(* what holds: a request that ends after its feed was parsed (accepted
   enqueue, enqueue error, sync success, validation failure) has released its
   slot *)
C39_ReleasedAfterParse ==
    [][\A r \in Requests :
          (uploads[r].pc \in {"enqueue", "jid", "sync"} /\ uploads'[r].pc = "ended") =>
              uploads[r].key \notin inflight']_vars

(* the second half of C39 as a step property, which the leaked slot breaks: a
   request is rejected as in-flight only while a request with its key is in
   the view function *)
C39_RejectedOnlyWhileRunning ==
    [][\A r \in Requests :
          (uploads[r].pc = "idle" /\ uploads'[r].pc = "ended") =>
              \E o \in InView : uploads[o].key = uploads'[r].key]_vars

====
